---- MODULE Spec2Model ----
(***************************************************************************)
(* update_sales_invoice_atomic (PL/pgSQL) as a state machine.              *)
(*                                                                         *)
(* The database is three tables: sales_invoices (header rows),             *)
(* sales_invoice_items (item rows) and the products' current_stock.  Each  *)
(* session runs the function inside one transaction: its statements        *)
(* (DELETE, UPDATE, INSERT) are separate steps whose writes stay in the     *)
(* session's transaction-local state tx[s] until Commit publishes them, or  *)
(* an error / abort discards them.  Statements run at READ COMMITTED: a     *)
(* statement sees the rows committed when it starts plus the session's own  *)
(* writes, and it waits for row locks held by other sessions.               *)
(*                                                                         *)
(* SQL values are sequences: NULL is <<>>, a value v is <<v>>.  A text is   *)
(* a string; a cast parses the text into the column's type.                 *)
(*                                                                         *)
(* The two React components of SourceDocuments.tsx follow the function:     *)
(* PurchaseInvoiceManager (the purchase invoice form and its handleSubmit)  *)
(* and SourceDocuments (the upload queue and its uploadAll).  A handler is  *)
(* one step up to its first await and one step per await after that; what   *)
(* a running handler reads is what its closure captured when it was called. *)
(***************************************************************************)
EXTENDS Integers, Sequences, FiniteSets, TLC

\* ------------------------------------------------------------------ bounds

MaxQty == 2
MaxItems == 2
MaxStock == 2
MaxItemsAtOnce == 1
MaxPatchKeys == 2

\* Lines of the purchase invoice form, and calls of handleSubmit.
MaxLines == 2
MaxSubmits == 1

\* Files in the upload queue, calls of uploadAll, calls of loadDocuments
\* awaiting their rows at once, and the last reading of the clock.
MaxQueue == 2
MaxUploadCalls == 1
MaxNow == 1

\* ------------------------------------------------------------ SQL values

NULL == <<>>

\* What a failed cast yields; the statement that evaluates it raises.
InvalidInput == <<"invalid", "input">>

IsNull(v) == Len(v) = 0

IsInvalid(v) == Len(v) = 2

CoalesceFirst(a, b) == a

CoalesceSecond(a, b) == b

COALESCE(a, b) == IF IsNull(a) THEN b ELSE a

NullifNever(a, b) == a

NULLIF(a, b) == IF a = b THEN NULL ELSE a

\* j ->> k : the text of key k of a JSONB object, NULL when the key is absent
\* or holds JSON null.  A JSONB object is a function from its keys to NULL
\* (JSON null) or <<text>>.
JsonText(j, k) == IF k \in DOMAIN j THEN j[k] ELSE NULL

\* (text)::date
CastDate(t) ==
  IF IsNull(t) THEN NULL
  ELSE CASE t[1] = "2024-03-15" -> <<20240315>>
         [] t[1] = "2024-04-14" -> <<20240414>>
         [] OTHER -> InvalidInput

\* The numbers the texts of the model denote, by text: "7" and "7.00" are 7.
NumericLexicon ==
  [t \in UNION {{ToString(n), ToString(n) \o ".00"} : n \in 0..60} |->
     CHOOSE n \in 0..60 : t \in {ToString(n), ToString(n) \o ".00"}]

\* (text)::numeric
CastNumeric(t) ==
  IF IsNull(t) THEN NULL
  ELSE IF t[1] \in DOMAIN NumericLexicon THEN <<NumericLexicon[t[1]]>>
       ELSE InvalidInput

\* (text)::integer : digits only, "7.00" is no integer.
CastInteger(t) ==
  IF IsNull(t) THEN NULL
  ELSE IF t[1] \in DOMAIN NumericLexicon /\ ToString(NumericLexicon[t[1]]) = t[1]
       THEN <<NumericLexicon[t[1]]>>
       ELSE InvalidInput

\* (text)::uuid : upper-case hex digits are accepted and stored lower-case.
CastUuid(t) ==
  IF IsNull(t) THEN NULL
  ELSE CASE t[1] \in {"c0ffee01", "C0FFEE01"} -> <<"c0ffee01">>
         [] t[1] \in {"c0ffee02", "C0FFEE02"} -> <<"c0ffee02">>
         [] t[1] \in {"p1", "P1"} -> <<"p1">>
         [] t[1] \in {"p2", "P2"} -> <<"p2">>
         [] t[1] \in {"p9", "P9"} -> <<"p9">>
         [] t[1] \in {"dc1", "DC1"} -> <<"dc1">>
         [] OTHER -> InvalidInput

\* ------------------------------------------------------------ the tables

Sessions == {"s1", "s2"}

\* inv9 is the identifier of no invoice.
InvoiceIds == {"inv1", "inv2", "inv9"}

ExistingInvoices == {"inv1", "inv2"}

\* p9 is the identifier of no product.
Products == {"p1", "p2"}

DateCols == {"invoice_date", "due_date"}

UuidCols == {"customer_id"}

NumericCols == {"subtotal", "tax_amount", "total_amount", "discount_amount"}

IntegerCols == {"payment_terms_days"}

TextCols == {"po_number", "notes", "payment_terms"}

\* The columns the UPDATE statement assigns from the patch.
UpdatableCols == DateCols \cup UuidCols \cup NumericCols \cup IntegerCols \cup TextCols

HeaderCols == {"id", "updated_at"} \cup UpdatableCols

\* The header row of an invoice before any call.
InitialHeader(id) ==
  [id |-> id,
   invoice_date |-> <<20240110>>,
   due_date |-> IF id = "inv1" THEN NULL ELSE <<20240131>>,
   customer_id |-> <<"c0ffee01">>,
   subtotal |-> <<100>>,
   tax_amount |-> <<11>>,
   total_amount |-> <<111>>,
   discount_amount |-> <<0>>,
   po_number |-> IF id = "inv1" THEN <<"PO-1">> ELSE NULL,
   payment_terms_days |-> <<14>>,
   notes |-> IF id = "inv1" THEN NULL ELSE <<"fragile">>,
   payment_terms |-> <<"net-14">>,
   updated_at |-> 0]

\* ------------------------------------------------- the UPDATE statement

SetClauseBarePoNumber(h, p_invoice_updates, now) ==
  [h EXCEPT
     !.invoice_date = COALESCE(CastDate(JsonText(p_invoice_updates, "invoice_date")), @),
     !.due_date = COALESCE(CastDate(JsonText(p_invoice_updates, "due_date")), @),
     !.customer_id = COALESCE(CastUuid(JsonText(p_invoice_updates, "customer_id")), @),
     !.subtotal = COALESCE(CastNumeric(JsonText(p_invoice_updates, "subtotal")), @),
     !.tax_amount = COALESCE(CastNumeric(JsonText(p_invoice_updates, "tax_amount")), @),
     !.total_amount = COALESCE(CastNumeric(JsonText(p_invoice_updates, "total_amount")), @),
     !.discount_amount = COALESCE(CastNumeric(JsonText(p_invoice_updates, "discount_amount")), @),
     !.po_number = JsonText(p_invoice_updates, "po_number"),
     !.payment_terms_days = COALESCE(CastInteger(JsonText(p_invoice_updates, "payment_terms_days")), @),
     !.notes = COALESCE(JsonText(p_invoice_updates, "notes"), @),
     !.payment_terms = COALESCE(JsonText(p_invoice_updates, "payment_terms"), @),
     !.updated_at = now]

SetClauseWithId(h, p_invoice_updates, now) ==
  [h EXCEPT
     !.id = IF IsNull(JsonText(p_invoice_updates, "id")) THEN @ ELSE JsonText(p_invoice_updates, "id")[1],
     !.invoice_date = COALESCE(CastDate(JsonText(p_invoice_updates, "invoice_date")), @),
     !.due_date = COALESCE(CastDate(JsonText(p_invoice_updates, "due_date")), @),
     !.customer_id = COALESCE(CastUuid(JsonText(p_invoice_updates, "customer_id")), @),
     !.subtotal = COALESCE(CastNumeric(JsonText(p_invoice_updates, "subtotal")), @),
     !.tax_amount = COALESCE(CastNumeric(JsonText(p_invoice_updates, "tax_amount")), @),
     !.total_amount = COALESCE(CastNumeric(JsonText(p_invoice_updates, "total_amount")), @),
     !.discount_amount = COALESCE(CastNumeric(JsonText(p_invoice_updates, "discount_amount")), @),
     !.po_number = COALESCE(JsonText(p_invoice_updates, "po_number"), @),
     !.payment_terms_days = COALESCE(CastInteger(JsonText(p_invoice_updates, "payment_terms_days")), @),
     !.notes = COALESCE(JsonText(p_invoice_updates, "notes"), @),
     !.payment_terms = COALESCE(JsonText(p_invoice_updates, "payment_terms"), @),
     !.updated_at = now]

SetClauseCorrectingTotal(h, p_invoice_updates, now) ==
  LET r == SetClauseWithId(h, [k \in DOMAIN p_invoice_updates \ {"id"} |-> p_invoice_updates[k]], now)
  IN [r EXCEPT !.total_amount = <<r.subtotal[1] + r.tax_amount[1] - r.discount_amount[1]>>]

\* The SET clause applied to the header row h: every updatable column takes
\* the cast patch value when that is not NULL and keeps its value otherwise;
\* updated_at takes NOW().
SetClause(h, p_invoice_updates, now) ==
  [h EXCEPT
     !.invoice_date = COALESCE(CastDate(JsonText(p_invoice_updates, "invoice_date")), @),
     !.due_date = COALESCE(CastDate(JsonText(p_invoice_updates, "due_date")), @),
     !.customer_id = COALESCE(CastUuid(JsonText(p_invoice_updates, "customer_id")), @),
     !.subtotal = COALESCE(CastNumeric(JsonText(p_invoice_updates, "subtotal")), @),
     !.tax_amount = COALESCE(CastNumeric(JsonText(p_invoice_updates, "tax_amount")), @),
     !.total_amount = COALESCE(CastNumeric(JsonText(p_invoice_updates, "total_amount")), @),
     !.discount_amount = COALESCE(CastNumeric(JsonText(p_invoice_updates, "discount_amount")), @),
     !.po_number = COALESCE(JsonText(p_invoice_updates, "po_number"), @),
     !.payment_terms_days = COALESCE(CastInteger(JsonText(p_invoice_updates, "payment_terms_days")), @),
     !.notes = COALESCE(JsonText(p_invoice_updates, "notes"), @),
     !.payment_terms = COALESCE(JsonText(p_invoice_updates, "payment_terms"), @),
     !.updated_at = now]

\* Whether evaluating the SET clause raises: some cast of a patch text fails.
SetClauseRaises(p_invoice_updates) ==
  \/ \E c \in DateCols : IsInvalid(CastDate(JsonText(p_invoice_updates, c)))
  \/ \E c \in UuidCols : IsInvalid(CastUuid(JsonText(p_invoice_updates, c)))
  \/ \E c \in NumericCols : IsInvalid(CastNumeric(JsonText(p_invoice_updates, c)))
  \/ \E c \in IntegerCols : IsInvalid(CastInteger(JsonText(p_invoice_updates, c)))

\* The keys a patch may carry: the updatable columns, "id", a header column
\* the SET clause does not assign, and "customer_or_supplier_id", a key the
\* SET clause does not read.
PatchKeys == UpdatableCols \cup {"id", "customer_or_supplier_id"}

\* The values of a patch key: JSON null, the empty string, a well-formed
\* text and (for a typed column) a malformed one.
PatchValues(k) ==
  CASE k = "invoice_date" -> {NULL, <<"">>, <<"2024-03-15">>, <<"not-a-date">>}
    [] k = "due_date" -> {NULL, <<"">>, <<"2024-04-14">>, <<"not-a-date">>}
    [] k \in UuidCols -> {NULL, <<"">>, <<"C0FFEE02">>, <<"not-a-uuid">>}
    [] k \in {"subtotal", "total_amount"} -> {NULL, <<"">>, <<"50.00">>, <<"abc">>}
    [] k \in {"tax_amount", "discount_amount"} -> {NULL, <<"">>, <<"5">>, <<"abc">>}
    [] k \in IntegerCols -> {NULL, <<"">>, <<"30">>, <<"30.5">>}
    [] k \in TextCols -> {NULL, <<"">>, <<"PO-123">>}
    [] k = "customer_or_supplier_id" -> {<<"C0FFEE02">>}
    [] OTHER -> {<<"inv2">>}

\* The patches of at most n keys.
PatchesUpTo(n) ==
  UNION { { f \in [K -> UNION {PatchValues(k) : k \in K}] :
              \A k \in K : f[k] \in PatchValues(k) } :
          K \in {K \in SUBSET PatchKeys : Cardinality(K) <= n} }

AllPatches == PatchesUpTo(MaxPatchKeys)

\* The patches drawn where two sessions run at once.
FewPatches == {p \in PatchesUpTo(1) : DOMAIN p \subseteq {"notes"} /\ \A k \in DOMAIN p : p[k] # <<"">>}

\* The patches drawn where a call is made a second time.
RetryPatches == {p \in PatchesUpTo(1) : DOMAIN p \subseteq {"due_date", "po_number"}}

\* ------------------------------------------------- the INSERT statement

\* One element of p_new_items: product p, quantity q (numbers as the form
\* sends them) and a delivery challan item reference dc.
ItemJson(p, q, dc) ==
  [product_id |-> <<p>>,
   batch_id |-> NULL,
   quantity |-> <<ToString(q)>>,
   unit_price |-> <<"10.00">>,
   tax_rate |-> <<"11">>,
   total_amount |-> <<ToString(10 * q) \o ".00">>,
   delivery_challan_item_id |-> dc,
   max_quantity |-> NULL]

GoodItems == {ItemJson(p, q, <<"">>) : p \in Products, q \in 1..MaxQty}

\* An item whose quantity is no number, one of an unknown product, one that
\* references a delivery challan item, one without the reference.
OddItems ==
  {[ItemJson("p1", 1, <<"">>) EXCEPT !.quantity = <<"abc">>],
   ItemJson("p9", 1, <<"">>),
   ItemJson("P1", 1, <<"dc1">>),
   ItemJson("p1", 1, NULL)}

SeqsUpTo(S, n) == UNION {[1..k -> S] : k \in 0..n}

\* The items drawn where two sessions run at once.
FewItems == {ItemJson(p, 1, <<"">>) : p \in Products}

\* The arrays drawn where the patch is what varies: none, a good item, an
\* item whose quantity is no number.
PatchRunItems ==
  {<<>>, <<ItemJson("p1", 1, <<"">>)>>,
   <<[ItemJson("p1", 1, <<"">>) EXCEPT !.quantity = <<"abc">>]>>}

\* The row the SELECT list of the INSERT builds from one array element.
ItemRow(p_invoice_id, rid, item) ==
  [rid |-> rid,
   invoice_id |-> p_invoice_id,
   product_id |-> CastUuid(JsonText(item, "product_id")),
   batch_id |-> CastUuid(JsonText(item, "batch_id")),
   quantity |-> CastNumeric(JsonText(item, "quantity")),
   unit_price |-> CastNumeric(JsonText(item, "unit_price")),
   tax_rate |-> CastNumeric(JsonText(item, "tax_rate")),
   total_amount |-> CastNumeric(JsonText(item, "total_amount")),
   delivery_challan_item_id |-> CastUuid(NULLIF(JsonText(item, "delivery_challan_item_id"), <<"">>)),
   max_quantity |-> CastNumeric(JsonText(item, "max_quantity"))]

\* Whether building the row raises: some cast of an item text fails.
ItemRowRaises(row) ==
  \E c \in {"product_id", "batch_id", "quantity", "unit_price", "tax_rate",
            "total_amount", "delivery_challan_item_id", "max_quantity"} :
     IsInvalid(row[c])

\* ------------------------------------------------------------- the state

VARIABLES
  sales_invoices,       \* committed header rows
  sales_invoice_items,  \* committed item rows
  current_stock,        \* committed on-hand quantity of each product
  pc,                   \* each session's position in the function
  tx,                   \* each session's arguments, locals and uncommitted writes
  result,               \* how each session's last call ended
  calls,                \* calls started so far; the clock NOW() reads
  old,                  \* what each session's invoice and the stock were when its call began
  disturbed             \* invoices other sessions committed to since the session's call began

\* PurchaseInvoiceManager: its prop, its state, the line objects its arrays
\* hold, its running handleSubmit calls and the two tables they insert into.
VARIABLES
  canManage,               \* the prop
  formData,                \* useState: the header fields of the form
  lineItems,               \* useState: the array of lines, as the objects' identities
  heap,                    \* the PurchaseInvoiceItem objects, by identity
  modalOpen,               \* useState
  invoices,                \* useState: the invoices last loaded
  loadingInvoices,         \* useState: loading
  submits,                 \* the calls of handleSubmit: position and closure
  purchase_invoices,       \* the table, in insertion order
  purchase_invoice_items   \* the table, in insertion order

purchaseVars == <<canManage, formData, lineItems, heap, modalOpen, invoices, loadingInvoices,
                  submits, purchase_invoices, purchase_invoice_items>>

\* SourceDocuments: its prop, its state, its running uploadAll and
\* loadDocuments calls, the storage bucket and the documents table.
VARIABLES
  isOpen,                    \* the prop
  documents,                 \* useState: the documents last loaded
  loadingDocuments,          \* useState: loading
  uploading,                 \* useState
  uploadQueue,               \* useState: the array of waiting items, as the objects' identities
  queueItems,                \* the { file, doc_type } objects, by identity
  upload,                    \* the call of uploadAll: position and closure
  loads,                     \* the calls of loadDocuments awaiting their rows
  dateNow,                   \* the clock Date.now() reads
  bucket,                    \* storage bucket product-source-documents: path -> file
  product_source_documents   \* the table, in insertion order

docsVars == <<isOpen, documents, loadingDocuments, uploading, uploadQueue, queueItems, upload, loads, dateNow,
              bucket, product_source_documents>>

dbVars == <<sales_invoices, sales_invoice_items, current_stock, pc, tx, result, calls, old, disturbed>>

vars == <<dbVars, purchaseVars, docsVars>>

tables == <<sales_invoices, sales_invoice_items, current_stock>>

NoStock == [p \in Products |-> 0]

\* A session's transaction before its first statement.  An argument is <<>>
\* until the function reads it and <<value>> from then on.
NewTx(p_invoice_id, call) ==
  [p_invoice_id |-> p_invoice_id,
   p_invoice_updates |-> <<>>,
   p_new_items |-> <<>>,
   call |-> call,
   v_result |-> NULL,
   snap |-> {},     \* the rows the running DELETE saw when it started
   del |-> {},      \* committed item rows this transaction deleted (and locks)
   ins |-> {},      \* item rows this transaction inserted
   hold |-> {},     \* committed header rows this transaction replaced (and locks)
   hnew |-> {},     \* the header rows replacing them
   dstock |-> NoStock,  \* this transaction's change of each product's stock
   plock |-> {},    \* products whose stock row this transaction locked
   log |-> <<>>]    \* the statements run so far, with the rows each touched

NoResult == [kind |-> "none", value |-> NULL, error |-> ""]

\* What a SELECT of another session sees of an invoice: committed rows only.
ReadInvoice(id) ==
  [header |-> {h \in sales_invoices : h.id = id},
   items |-> {r \in sales_invoice_items : r.invoice_id = id}]

\* ---- PurchaseInvoiceManager as mounted

\* useState(...) of formData, which resetForm sets again.
InitialFormData ==
  [invoice_number |-> "",
   supplier_id |-> "",
   invoice_date |-> "2024-03-15",
   due_date |-> "",
   currency |-> "IDR",
   exchange_rate |-> 1,
   tax_percent |-> 0,
   notes |-> ""]

\* The line useState(...) of lineItems starts with, and handleAddLine and
\* resetForm create.
BlankLine ==
  [product_id |-> "", product_name |-> "", unit |-> "",
   quantity |-> 1, rate |-> 0, amount |-> 0, narration |-> ""]

\* The calls of handleSubmit, in the order they are made.
Slots == 1..MaxSubmits

\* Identities for the line objects the form's array and the closures of the
\* running calls can hold at once.
ObjectIds == 1..(MaxLines * (MaxSubmits + 1) + 1)

\* What alert() showed: the text and, where it starts with Line n, the n.
Alert(text) == [line |-> 0, text |-> text]

NoAlert == Alert("")

\* A call of handleSubmit not made yet.
NoSubmit ==
  [at |-> "idle",
   formData |-> InitialFormData,   \* the closure: formData,
   lineItems |-> <<>>,             \*   lineItems (the array, holding identities),
   totals |-> [subtotal |-> 0, taxAmount |-> 0, total |-> 0],  \* totals,
   user |-> "",                    \*   userData.user?.id,
   invoice |-> 0,                  \*   invoice.id
   itemsToInsert |-> <<>>,         \*   and itemsToInsert
   seen |-> <<>>,                  \* the lines as they were when the call was made
   inserts |-> 0,                  \* insert requests the call has issued
   alert |-> NoAlert]              \* the call's alert

\* The component after mounting: the three loaders have returned, no
\* purchase invoice exists yet.
PurchaseMounted ==
  /\ formData = InitialFormData
  /\ lineItems = <<1>>
  /\ heap = [o \in ObjectIds |-> BlankLine]
  /\ modalOpen = FALSE
  /\ invoices = <<>>
  /\ loadingInvoices = FALSE
  /\ submits = [k \in Slots |-> NoSubmit]
  /\ purchase_invoices = <<>>
  /\ purchase_invoice_items = <<>>

\* ---- SourceDocuments as mounted

\* Identities for the queue item objects the queue and the closure of the
\* running uploadAll can hold at once.
QueueIds == 1..(2 * MaxQueue)

NoItem == [file |-> "", doc_type |-> "Other"]

\* No call of uploadAll running.
NoUpload ==
  [at |-> "idle",
   call |-> 0,          \* calls made so far
   uploadQueue |-> <<>>,  \* the closure: uploadQueue (the array, holding identities)
   user |-> "",         \* user.id
   i |-> 0,             \* the position of the for loop
   filePath |-> <<0, "">>,  \* filePath of the iteration: Date.now() and the file's name
   row |-> <<>>,        \* the row of the insert sent
   done |-> <<>>,       \* what the call has done so far, in order
   captured |-> <<>>,   \* the files of the queue as the call was made
   cleared |-> <<>>,    \* the files of the queue setUploadQueue([]) emptied
   alert |-> ""]        \* the call's alert

\* The component after mounting for a source without documents.  With isOpen
\* the effect has called loadDocuments, which awaits its rows.
DocsMounted ==
  /\ documents = <<>>
  /\ loadingDocuments = TRUE
  /\ uploading = FALSE
  /\ uploadQueue = <<>>
  /\ queueItems = [o \in QueueIds |-> NoItem]
  /\ upload = NoUpload
  /\ loads = IF isOpen THEN 1 ELSE 0
  /\ dateNow = 0
  /\ bucket = {}
  /\ product_source_documents = <<>>

InitialItem(id, n, p, q) == ItemRow(id, <<0, n>>, ItemJson(p, q, <<"">>))

Init ==
  /\ sales_invoices = {InitialHeader(id) : id \in ExistingInvoices}
  /\ \E rows \in {{}} \cup {{InitialItem("inv1", 1, "p1", q)} : q \in 1..MaxQty} :
        sales_invoice_items = rows \cup {InitialItem("inv2", 2, "p2", 1)}
  /\ \E q \in 0..MaxStock : current_stock = [p \in Products |-> IF p = "p1" THEN q ELSE MaxStock]
  /\ pc = [s \in Sessions |-> "idle"]
  /\ tx = [s \in Sessions |-> NewTx("inv9", 0)]
  /\ result = [s \in Sessions |-> NoResult]
  /\ calls = 0
  /\ old = [s \in Sessions |-> [invoice |-> ReadInvoice("inv9"), stock |-> NoStock]]
  /\ disturbed = [s \in Sessions |-> {}]
  /\ canManage = TRUE
  /\ PurchaseMounted
  /\ isOpen = TRUE
  /\ DocsMounted

\* ------------------------------------------------- transactions and locks

AutoCommitEachStatement == TRUE

\* The statements of the function body do not commit one by one: the call is
\* one statement of its caller, hence one transaction.
AutoCommit == FALSE

InsertBeforeDelete(stmt) ==
  CASE stmt = "begin" -> "insert"
    [] stmt = "insert" -> "update"
    [] stmt = "update" -> "delete"
    [] stmt = "delete" -> "return"

\* The statement the function runs after the one named.
NextStmt(stmt) ==
  CASE stmt = "begin" -> "delete"
    [] stmt = "delete" -> "update"
    [] stmt = "update" -> "insert"
    [] stmt = "insert" -> "return"

Flushed(t) ==
  [t EXCEPT !.del = {}, !.ins = {}, !.hold = {}, !.hnew = {},
            !.dstock = NoStock, !.plock = {}, !.snap = {}]

PublishWithoutStock(s, t) ==
  /\ sales_invoices' = (sales_invoices \ t.hold) \cup t.hnew
  /\ sales_invoice_items' = (sales_invoice_items \ t.del) \cup t.ins
  /\ current_stock' = current_stock
  /\ disturbed' = [o \in Sessions |->
                     IF o = s THEN disturbed[o] ELSE disturbed[o] \cup {t.p_invoice_id}]

\* The writes of transaction record t become the committed state.
Publish(s, t) ==
  /\ sales_invoices' = (sales_invoices \ t.hold) \cup t.hnew
  /\ sales_invoice_items' = (sales_invoice_items \ t.del) \cup t.ins
  /\ current_stock' = [p \in Products |-> current_stock[p] + t.dstock[p]]
  /\ disturbed' = [o \in Sessions |->
                     IF o = s THEN disturbed[o] ELSE disturbed[o] \cup {t.p_invoice_id}]

\* A statement of session s ends leaving the transaction as t.
StmtDone(s, t, stmt) ==
  /\ pc' = [pc EXCEPT ![s] = NextStmt(stmt)]
  /\ IF AutoCommit
       THEN Publish(s, t) /\ tx' = [tx EXCEPT ![s] = Flushed(t)]
       ELSE tx' = [tx EXCEPT ![s] = t] /\ UNCHANGED <<tables, disturbed>>
  /\ UNCHANGED <<result, calls, old, purchaseVars, docsVars>>

RaiseSwallowed(s, t, error) ==
  /\ pc' = [pc EXCEPT ![s] = "done"]
  /\ Publish(s, t)
  /\ tx' = [tx EXCEPT ![s] = Flushed(t)]
  /\ result' = [result EXCEPT ![s] = [kind |-> "returned", value |-> NULL, error |-> ""]]
  /\ UNCHANGED <<calls, old, purchaseVars, docsVars>>

\* A statement of session s raises: nothing in the function catches it, the
\* transaction rolls back and the caller gets the error.
Raise(s, t, error) ==
  /\ pc' = [pc EXCEPT ![s] = "done"]
  /\ tx' = [tx EXCEPT ![s] = Flushed(t)]
  /\ result' = [result EXCEPT ![s] = [kind |-> "raised", value |-> NULL, error |-> error]]
  /\ UNCHANGED <<tables, calls, old, disturbed, purchaseVars, docsVars>>

Others(s) == Sessions \ {s}

\* Item rows, header rows and stock rows that sessions other than s hold locked.
LockedItems(s) == UNION {tx[o].del : o \in Others(s)}

LockedHeaders(s) == UNION {tx[o].hold : o \in Others(s)}

LockedProducts(s) == UNION {tx[o].plock : o \in Others(s)}

\* ------------------------------------------------------ the stock triggers

\* The product whose stock row the trigger of an item row updates, if any.
StockRowOf(row) ==
  IF IsNull(row.product_id) \/ IsNull(row.quantity) THEN {}
  ELSE {row.product_id[1]} \cap Products

\* Row trigger of DELETE: the row's quantity returns to the product's stock.
RestoreStock(dstock, row) ==
  [p \in Products |-> IF p \in StockRowOf(row) THEN dstock[p] + row.quantity[1] ELSE dstock[p]]

\* Row trigger of INSERT: the row's quantity leaves the product's stock ...
DeductStock(dstock, row) ==
  [p \in Products |-> IF p \in StockRowOf(row) THEN dstock[p] - row.quantity[1] ELSE dstock[p]]

\* ... and the trigger rejects the row when the stock would become negative.
\* The stock a transaction sees is the committed one and its own change.
StockSuffices(dstock, row) ==
  \A p \in StockRowOf(row) : current_stock[p] + dstock[p] >= row.quantity[1]

\* Foreign keys of an item row: an existing product, and an existing
\* delivery challan item when the reference is given.
ForeignKeysHold(row) ==
  /\ IsNull(row.product_id) \/ row.product_id[1] \in Products
  /\ IsNull(row.delivery_challan_item_id) \/ row.delivery_challan_item_id[1] \in {"dc1"}

RECURSIVE RestoreAll(_, _)
RestoreAll(dstock, rows) ==
  IF rows = {} THEN dstock
  ELSE LET r == CHOOSE r \in rows : TRUE
       IN RestoreAll(RestoreStock(dstock, r), rows \ {r})

\* ------------------------------------------------------------ the function

\* A call starts: the caller's statement opens the transaction.  Each session
\* calls once.
Begin(s) ==
  /\ pc[s] = "idle"
  /\ \E p_invoice_id \in InvoiceIds :
       /\ tx' = [tx EXCEPT ![s] = NewTx(p_invoice_id, calls + 1)]
       /\ old' = [old EXCEPT ![s] = [invoice |-> ReadInvoice(p_invoice_id), stock |-> current_stock]]
  /\ pc' = [pc EXCEPT ![s] = NextStmt("begin")]
  /\ calls' = calls + 1
  /\ result' = [result EXCEPT ![s] = NoResult]
  /\ disturbed' = [disturbed EXCEPT ![s] = {}]
  /\ UNCHANGED <<tables, purchaseVars, docsVars>>

\* The caller of session o's call makes the call again, with the same
\* arguments, once that call has ended having read them.
Reinvoke(s, o) ==
  /\ pc[s] = "idle"
  /\ pc[o] = "done"
  /\ Len(tx[o].p_invoice_updates) = 1
  /\ Len(tx[o].p_new_items) = 1
  /\ tx' = [tx EXCEPT ![s] = NewTx(tx[o].p_invoice_id, calls + 1)]
  /\ old' = [old EXCEPT ![s] = [invoice |-> ReadInvoice(tx[o].p_invoice_id), stock |-> current_stock]]
  /\ pc' = [pc EXCEPT ![s] = NextStmt("begin")]
  /\ calls' = calls + 1
  /\ result' = [result EXCEPT ![s] = NoResult]
  /\ disturbed' = [disturbed EXCEPT ![s] = {}]
  /\ UNCHANGED <<tables, purchaseVars, docsVars>>

VisibleItemsOfAnyInvoice(t) == (sales_invoice_items \ t.del) \cup t.ins

VisibleItemsByProductId(t) ==
  {r \in (sales_invoice_items \ t.del) \cup t.ins : r.product_id = <<t.p_invoice_id>>}

\* The item rows of transaction t's invoice that a statement of t sees now.
VisibleItems(t) ==
  {r \in (sales_invoice_items \ t.del) \cup t.ins : r.invoice_id = t.p_invoice_id}

\* DELETE FROM sales_invoice_items WHERE invoice_id = p_invoice_id, its start:
\* the statement takes its snapshot.
DeleteStart(s) ==
  /\ pc[s] = "delete"
  /\ tx' = [tx EXCEPT ![s].snap = VisibleItems(tx[s])]
  /\ pc' = [pc EXCEPT ![s] = "deleting"]
  /\ UNCHANGED <<tables, result, calls, old, disturbed, purchaseVars, docsVars>>

\* ... and its end.  The statement waits while another transaction holds a
\* row of its snapshot or a stock row it needs; a row of the snapshot that a
\* transaction committed meanwhile has deleted is skipped, and rows committed
\* after the snapshot are not seen.  Each deleted row fires the trigger.
DeleteFinish(s) ==
  /\ pc[s] = "deleting"
  /\ LET t == tx[s]
         live == t.snap \cap VisibleItems(t)
         stockRows == UNION {StockRowOf(r) : r \in live}
     IN /\ t.snap \cap LockedItems(s) = {}
        /\ stockRows \cap LockedProducts(s) = {}
        /\ StmtDone(s, [t EXCEPT !.snap = {},
                                 !.del = @ \cup (live \cap sales_invoice_items),
                                 !.ins = @ \ live,
                                 !.dstock = RestoreAll(@, live),
                                 !.plock = @ \cup stockRows,
                                 !.log = Append(@, [stmt |-> "delete", rows |-> Cardinality(live)])],
                    "delete")

\* Casts the planner evaluates before any row is looked at (those whose input
\* function is immutable: uuid, numeric, integer; a date's is not).
PlannedCastRaises(p_invoice_updates) ==
  \/ \E c \in UuidCols : IsInvalid(CastUuid(JsonText(p_invoice_updates, c)))
  \/ \E c \in NumericCols : IsInvalid(CastNumeric(JsonText(p_invoice_updates, c)))
  \/ \E c \in IntegerCols : IsInvalid(CastInteger(JsonText(p_invoice_updates, c)))

\* UPDATE sales_invoices SET ... WHERE id = p_invoice_id RETURNING id INTO
\* v_result.  The statement waits for the header row's lock and then works on
\* the row's latest committed version.  The SET clause is evaluated for the
\* row found; with no row found only the casts the planner folded are
\* evaluated, and whether it folds them depends on the plan it chose.
Update(s, patches) ==
  /\ pc[s] = "update"
  /\ \E p_invoice_updates \in patches :
       LET t == [tx[s] EXCEPT !.p_invoice_updates = <<p_invoice_updates>>]
           found == {h \in (sales_invoices \ t.hold) \cup t.hnew : h.id = t.p_invoice_id}
       IN /\ found \cap LockedHeaders(s) = {}
          /\ \E folded \in BOOLEAN :
               IF \/ found # {} /\ SetClauseRaises(p_invoice_updates)
                  \/ folded /\ PlannedCastRaises(p_invoice_updates)
               THEN Raise(s, t, "invalid input syntax")
               ELSE StmtDone(s, [t EXCEPT
                                   !.hold = @ \cup (found \cap sales_invoices),
                                   !.hnew = (@ \ found) \cup
                                            {SetClause(h, p_invoice_updates, t.call) : h \in found},
                                   !.v_result = IF found = {} THEN NULL ELSE <<t.p_invoice_id>>,
                                   !.log = Append(@, [stmt |-> "update", rows |-> Cardinality(found)])],
                             "update")

\* INSERT INTO sales_invoice_items ... SELECT ... FROM unnest(p_new_items):
\* the rows are built and inserted in array order, each firing the trigger.
\* acc is the rows inserted so far, the stock change so far and the error.
RECURSIVE InsertItems(_, _, _, _)
InsertItems(t, items, i, acc) ==
  IF i > Len(items) \/ acc.error # "" THEN acc
  ELSE LET row == ItemRow(t.p_invoice_id, <<t.call, i>>, items[i])
       IN IF ItemRowRaises(row) THEN [acc EXCEPT !.error = "invalid input syntax"]
          ELSE IF ~ForeignKeysHold(row) THEN [acc EXCEPT !.error = "foreign key violation"]
          ELSE IF ~StockSuffices(acc.dstock, row) THEN [acc EXCEPT !.error = "insufficient stock"]
          ELSE InsertItems(t, items, i + 1,
                           [rows |-> acc.rows \cup {row},
                            dstock |-> DeductStock(acc.dstock, row),
                            error |-> ""])

Insert(s, itemSeqs) ==
  /\ pc[s] = "insert"
  /\ \E p_new_items \in itemSeqs :
       LET t == [tx[s] EXCEPT !.p_new_items = <<p_new_items>>]
           acc == InsertItems(t, p_new_items, 1, [rows |-> {}, dstock |-> t.dstock, error |-> ""])
           stockRows == UNION {StockRowOf(r) : r \in acc.rows}
       IN /\ stockRows \cap LockedProducts(s) = {}
          /\ IF acc.error # ""
               THEN Raise(s, t, acc.error)
               ELSE StmtDone(s, [t EXCEPT !.ins = @ \cup acc.rows,
                                          !.dstock = acc.dstock,
                                          !.plock = @ \cup stockRows,
                                          !.log = Append(@, [stmt |-> "insert", rows |-> Cardinality(acc.rows)])],
                             "insert")

ReturnArgument(s) ==
  /\ pc[s] = "return"
  /\ Publish(s, tx[s])
  /\ tx' = [tx EXCEPT ![s] = Flushed(tx[s])]
  /\ pc' = [pc EXCEPT ![s] = "done"]
  /\ result' = [result EXCEPT ![s] = [kind |-> "returned", value |-> <<tx[s].p_invoice_id>>, error |-> ""]]
  /\ UNCHANGED <<calls, old, purchaseVars, docsVars>>

\* RETURN v_result: the function ends, the caller's statement commits.
Return(s) ==
  /\ pc[s] = "return"
  /\ Publish(s, tx[s])
  /\ tx' = [tx EXCEPT ![s] = Flushed(tx[s])]
  /\ pc' = [pc EXCEPT ![s] = "done"]
  /\ result' = [result EXCEPT ![s] = [kind |-> "returned", value |-> tx[s].v_result, error |-> ""]]
  /\ UNCHANGED <<calls, old, purchaseVars, docsVars>>

\* The transaction is aborted from outside (the connection is lost, the
\* statement is cancelled, the session is chosen as a deadlock victim).
Abort(s) ==
  /\ pc[s] \in {"delete", "deleting", "update", "insert", "return"}
  /\ Raise(s, tx[s], "aborted")

\* Two sessions calling at once, s1 the first to start.
Next ==
  \E s \in Sessions :
    \/ (s = "s1" \/ pc["s1"] # "idle") /\ Begin(s)
    \/ DeleteStart(s)
    \/ DeleteFinish(s)
    \/ Update(s, FewPatches)
    \/ Insert(s, SeqsUpTo(FewItems, MaxItemsAtOnce))
    \/ Return(s)
    \/ Abort(s)

Spec == Init /\ [][Next]_vars

\* One call, over all the item arrays.
NextItems ==
  \/ Begin("s1")
  \/ DeleteStart("s1")
  \/ DeleteFinish("s1")
  \/ Update("s1", FewPatches)
  \/ Insert("s1", SeqsUpTo(GoodItems \cup OddItems, MaxItems))
  \/ Return("s1")
  \/ Abort("s1")

SpecItems == Init /\ [][NextItems]_vars

\* One call, over all the patches.
NextPatch ==
  \/ Begin("s1")
  \/ DeleteStart("s1")
  \/ DeleteFinish("s1")
  \/ Update("s1", AllPatches)
  \/ Insert("s1", PatchRunItems)
  \/ Return("s1")
  \/ Abort("s1")

SpecPatch == Init /\ [][NextPatch]_vars

\* One call and then the same call again: s2 repeats the call of s1.
NextRetry ==
  \/ Begin("s1")
  \/ Reinvoke("s2", "s1")
  \/ \E s \in Sessions : DeleteStart(s)
  \/ \E s \in Sessions : DeleteFinish(s)
  \/ \E s \in Sessions :
       Update(s, IF s = "s1" THEN RetryPatches ELSE {tx["s1"].p_invoice_updates[1]})
  \/ \E s \in Sessions :
       Insert(s, IF s = "s1" THEN SeqsUpTo(GoodItems \cup OddItems, MaxItems)
                 ELSE {tx["s1"].p_new_items[1]})
  \/ \E s \in Sessions : Return(s)
  \/ \E s \in Sessions : Abort(s)

SpecRetry == Init /\ [][NextRetry]_vars

\* ------------------------------------------------ PurchaseInvoiceManager

\* The database before any call of the function, where the components run.
QuietDb ==
  /\ sales_invoices = {InitialHeader(id) : id \in ExistingInvoices}
  /\ sales_invoice_items = {InitialItem("inv2", 2, "p2", 1)}
  /\ current_stock = [p \in Products |-> MaxStock]
  /\ pc = [s \in Sessions |-> "idle"]
  /\ tx = [s \in Sessions |-> NewTx("inv9", 0)]
  /\ result = [s \in Sessions |-> NoResult]
  /\ calls = 0
  /\ old = [s \in Sessions |-> [invoice |-> ReadInvoice("inv9"), stock |-> NoStock]]
  /\ disturbed = [s \in Sessions |-> {}]

\* The state products after loadProducts.
products ==
  <<[id |-> "p1", product_name |-> "Resin", unit |-> "kg"],
    [id |-> "p2", product_name |-> "Pigment", unit |-> "l"]>>

\* A JavaScript number, or NaN.
NaN == [nan |-> TRUE, num |-> 0]

Num(n) == [nan |-> FALSE, num |-> n]

\* parseFloat(text): the number the longest numeric prefix of the text
\* denotes, NaN when there is none.
parseFloat(text) ==
  CASE text \in DOMAIN NumericLexicon -> Num(NumericLexicon[text])
    [] text = "-1" -> Num(-1)
    [] text = "-2" -> Num(-2)
    [] text = "2abc" -> Num(2)
    [] OTHER -> NaN

\* x || d for a number x: d when x is NaN or 0.
OrElse(x, d) == IF x.nan \/ x.num = 0 THEN d ELSE x.num

Range(seq) == {seq[i] : i \in DOMAIN seq}

\* The arrays of the closures of the calls 1..k of handleSubmit, one after
\* the other.
RECURSIVE HeldUpTo(_, _)
HeldUpTo(subs, k) ==
  IF k = 0 THEN <<>> ELSE HeldUpTo(subs, k - 1) \o subs[k].lineItems

\* A sequence without the repetitions of its elements.
RECURSIVE Distinct(_)
Distinct(seq) ==
  IF seq = <<>> THEN <<>>
  ELSE LET front == Distinct(SubSeq(seq, 1, Len(seq) - 1))
       IN IF seq[Len(seq)] \in Range(front) THEN front ELSE Append(front, seq[Len(seq)])

\* An identity nothing holds.
Fresh == CHOOSE o \in ObjectIds : o \notin Range(lineItems \o HeldUpTo(submits, MaxSubmits))

\* The form's array arr, the heap h and the calls subs become the state.
\* Identities are names only: the objects are named again in the order the
\* form's array and the closures hold them, and what nothing holds is gone.
SetObjects(arr, h, subs) ==
  LET held == Distinct(arr \o HeldUpTo(subs, MaxSubmits))
      name == [o \in Range(held) |-> CHOOSE n \in DOMAIN held : held[n] = o]
  IN /\ lineItems' = [i \in DOMAIN arr |-> name[arr[i]]]
     /\ heap' = [n \in ObjectIds |-> IF n \in DOMAIN held THEN h[held[n]] ELSE BlankLine]
     /\ submits' = [k \in Slots |->
                      [subs[k] EXCEPT !.lineItems = [i \in DOMAIN subs[k].lineItems |->
                                                       name[subs[k].lineItems[i]]]]]

\* The lines an array holds, as they are now.
LinesOf(arr) == [i \in DOMAIN arr |-> heap[arr[i]]]

RECURSIVE SumOfAmounts(_)
SumOfAmounts(lines) ==
  IF lines = <<>> THEN 0
  ELSE lines[1].amount + SumOfAmounts(Tail(lines))

\* calculateTotals.  The amounts and percentages of the model are chosen so
\* that the division is exact.
calculateTotals(lines, fd) ==
  LET subtotal == SumOfAmounts(lines)
      taxAmount == (subtotal * fd.tax_percent) \div 100
  IN [subtotal |-> subtotal, taxAmount |-> taxAmount, total |-> subtotal + taxAmount]

\* handleAddLine: a new array with a new blank line at its end.
handleAddLine ==
  /\ Len(lineItems) < MaxLines
  /\ SetObjects(Append(lineItems, Fresh), [heap EXCEPT ![Fresh] = BlankLine], submits)
  /\ UNCHANGED <<canManage, formData, modalOpen, invoices, loadingInvoices,
                 purchase_invoices, purchase_invoice_items, dbVars, docsVars>>

handleRemoveLineAlways ==
  \E index \in DOMAIN lineItems :
    /\ SetObjects([i \in 1..(Len(lineItems) - 1) |->
                     IF i < index THEN lineItems[i] ELSE lineItems[i + 1]],
                  heap, submits)
    /\ UNCHANGED <<canManage, formData, modalOpen, invoices, loadingInvoices,
                   purchase_invoices, purchase_invoice_items, dbVars, docsVars>>

\* handleRemoveLine(index): a new array without the line, unless it is the
\* only one.
handleRemoveLine ==
  \E index \in DOMAIN lineItems :
    /\ IF Len(lineItems) > 1
         THEN SetObjects([i \in 1..(Len(lineItems) - 1) |->
                            IF i < index THEN lineItems[i] ELSE lineItems[i + 1]],
                         heap, submits)
         ELSE UNCHANGED <<lineItems, heap, submits>>
    /\ UNCHANGED <<canManage, formData, modalOpen, invoices, loadingInvoices,
                   purchase_invoices, purchase_invoice_items, dbVars, docsVars>>

ChangedLineKeepingAmount(line, field, value) ==
  CASE field = "product_id" ->
         IF \E i \in DOMAIN products : products[i].id = value
           THEN LET product == products[CHOOSE i \in DOMAIN products : products[i].id = value]
                IN [line EXCEPT !.product_id = value,
                                !.product_name = product.product_name,
                                !.unit = product.unit,
                                !.narration = product.product_name]
           ELSE line
    [] field = "quantity" -> [line EXCEPT !.quantity = OrElse(parseFloat(value), 0)]
    [] field = "rate" ->
         LET r == OrElse(parseFloat(value), 0)
         IN [line EXCEPT !.rate = r, !.amount = line.quantity * r]
    [] OTHER -> [line EXCEPT ![field] = value]

\* The line object after handleLineChange(index, field, value) wrote to it.
ChangedLine(line, field, value) ==
  CASE field = "product_id" ->
         IF \E i \in DOMAIN products : products[i].id = value
           THEN LET product == products[CHOOSE i \in DOMAIN products : products[i].id = value]
                IN [line EXCEPT !.product_id = value,
                                !.product_name = product.product_name,
                                !.unit = product.unit,
                                !.narration = product.product_name]
           ELSE line
    [] field = "quantity" ->
         LET q == OrElse(parseFloat(value), 0)
         IN [line EXCEPT !.quantity = q, !.amount = q * line.rate]
    [] field = "rate" ->
         LET r == OrElse(parseFloat(value), 0)
         IN [line EXCEPT !.rate = r, !.amount = line.quantity * r]
    [] OTHER -> [line EXCEPT ![field] = value]

\* handleLineChange(index, field, value), for the fields and values given.
\* The new array is a shallow copy of the old: the write is to the object that
\* the old array, and a closure that captured it, hold too.
handleLineChange(fields, values) ==
  \E index \in DOMAIN lineItems : \E field \in fields : \E value \in values[field] :
    /\ heap' = [heap EXCEPT ![lineItems[index]] = ChangedLine(@, field, value)]
    /\ UNCHANGED <<canManage, formData, lineItems, modalOpen, invoices, loadingInvoices, submits,
                   purchase_invoices, purchase_invoice_items, dbVars, docsVars>>

\* What resetForm sets, beside the calls subs: the initial formData and an
\* array of one new blank line.
ResetForm(subs) ==
  /\ formData' = InitialFormData
  /\ SetObjects(<<Fresh>>, [heap EXCEPT ![Fresh] = BlankLine], subs)

\* The button New Purchase Invoice, shown to who may manage: resetForm() and
\* setModalOpen(true).
OpenModal ==
  /\ canManage
  /\ ResetForm(submits)
  /\ modalOpen' = TRUE
  /\ UNCHANGED <<canManage, invoices, loadingInvoices,
                 purchase_invoices, purchase_invoice_items, dbVars, docsVars>>

\* The modal's onClose and the button Cancel: setModalOpen(false) and
\* resetForm().
CloseModal ==
  /\ modalOpen' = FALSE
  /\ ResetForm(submits)
  /\ UNCHANGED <<canManage, invoices, loadingInvoices,
                 purchase_invoices, purchase_invoice_items, dbVars, docsVars>>

\* The inputs of the header: each sets one field of a copy of formData.
OnSupplierChange(values) ==
  /\ \E value \in values : formData' = [formData EXCEPT !.supplier_id = value]
  /\ UNCHANGED <<canManage, lineItems, heap, modalOpen, invoices, loadingInvoices, submits,
                 purchase_invoices, purchase_invoice_items, dbVars, docsVars>>

OnTextChange(fields, values) ==
  /\ \E field \in fields : \E value \in values[field] :
       formData' = [formData EXCEPT ![field] = value]
  /\ UNCHANGED <<canManage, lineItems, heap, modalOpen, invoices, loadingInvoices, submits,
                 purchase_invoices, purchase_invoice_items, dbVars, docsVars>>

OnCurrencyChange ==
  /\ \E value \in {"IDR", "USD"} :
       formData' = [formData EXCEPT !.currency = value,
                                    !.exchange_rate = IF value = "IDR" THEN 1 ELSE @]
  /\ UNCHANGED <<canManage, lineItems, heap, modalOpen, invoices, loadingInvoices, submits,
                 purchase_invoices, purchase_invoice_items, dbVars, docsVars>>

OnExchangeRateChangeAnyCurrency(values) ==
  /\ \E value \in values :
       formData' = [formData EXCEPT !.exchange_rate = OrElse(parseFloat(value), 1)]
  /\ UNCHANGED <<canManage, lineItems, heap, modalOpen, invoices, loadingInvoices, submits,
                 purchase_invoices, purchase_invoice_items, dbVars, docsVars>>

\* The exchange rate input, rendered while the currency is USD.
OnExchangeRateChange(values) ==
  /\ formData.currency = "USD"
  /\ \E value \in values :
       formData' = [formData EXCEPT !.exchange_rate = OrElse(parseFloat(value), 1)]
  /\ UNCHANGED <<canManage, lineItems, heap, modalOpen, invoices, loadingInvoices, submits,
                 purchase_invoices, purchase_invoice_items, dbVars, docsVars>>

OnTaxPercentChange(values) ==
  /\ \E value \in values :
       formData' = [formData EXCEPT !.tax_percent = OrElse(parseFloat(value), 0)]
  /\ UNCHANGED <<canManage, lineItems, heap, modalOpen, invoices, loadingInvoices, submits,
                 purchase_invoices, purchase_invoice_items, dbVars, docsVars>>

\* String.trim() on the texts of the model.
Trim(text) ==
  CASE text = " INV-7 " -> "INV-7"
    [] text = "  " -> ""
    [] OTHER -> text

LineAlertProductOnly(i, item) ==
  IF item.product_id = "" THEN [line |-> i, text |-> "Please select a product"] ELSE NoAlert

\* The checks of one line in handleSubmit's loop: the alert of the first that
\* fails, "" when none does.
LineAlert(i, item) ==
  IF item.product_id = "" THEN [line |-> i, text |-> "Please select a product"]
  ELSE IF item.quantity <= 0 THEN [line |-> i, text |-> "Quantity must be greater than 0"]
  ELSE IF item.rate <= 0 THEN [line |-> i, text |-> "Rate must be greater than 0"]
  ELSE NoAlert

\* The loop over the lines from the i-th on.
RECURSIVE FirstLineAlert(_, _)
FirstLineAlert(lines, i) ==
  IF i > Len(lines) THEN NoAlert
  ELSE IF LineAlert(i, lines[i]) # NoAlert THEN LineAlert(i, lines[i])
  ELSE FirstLineAlert(lines, i + 1)

\* The checks handleSubmit makes before it awaits anything: the alert it
\* returns with, none when it goes on.
Rejection(cm, fd, lines) ==
  IF ~cm THEN Alert("You do not have permission to create purchase invoices")
  ELSE IF fd.supplier_id = "" THEN Alert("Please select a supplier")
  ELSE IF Len(lines) = 0 \/ \A i \in DOMAIN lines : lines[i].amount = 0
    THEN Alert("Please add at least one line item")
  ELSE FirstLineAlert(lines, 1)

\* A call of handleSubmit ends with the alert given: its closure is let go.
\* The alert of the catch is Failed to save invoice: and the error's message.
Ends(sub, alert) == [sub EXCEPT !.at = "returned", !.alert = alert, !.lineItems = <<>>]

\* handleSubmit up to its first await.  The closure holds the formData and
\* the lineItems array of the render the handler belongs to.
handleSubmit(k) ==
  /\ submits[k].at = "idle"
  /\ \A j \in Slots : j < k => submits[j].at # "idle"
  /\ LET lines == LinesOf(lineItems)
         alert == Rejection(canManage, formData, lines)
     IN submits' = [submits EXCEPT ![k] =
                      IF alert # NoAlert THEN Ends(@, alert)
                      ELSE [@ EXCEPT !.at = "getUser",
                                     !.formData = formData,
                                     !.lineItems = lineItems,
                                     !.seen = lines,
                                     !.totals = calculateTotals(lines, formData)]]
  /\ UNCHANGED <<canManage, formData, lineItems, heap, modalOpen, invoices, loadingInvoices,
                 purchase_invoices, purchase_invoice_items, dbVars, docsVars>>

\* invoiceData.
invoiceData(sub) ==
  [invoice_number |-> Trim(sub.formData.invoice_number),
   supplier_id |-> sub.formData.supplier_id,
   invoice_date |-> sub.formData.invoice_date,
   due_date |-> IF sub.formData.due_date = "" THEN NULL ELSE <<sub.formData.due_date>>,
   currency |-> sub.formData.currency,
   exchange_rate |-> sub.formData.exchange_rate,
   subtotal |-> sub.totals.subtotal,
   tax_amount |-> sub.totals.taxAmount,
   total_amount |-> sub.totals.total,
   paid_amount |-> 0,
   balance_amount |-> sub.totals.total,
   status |-> "unpaid",
   notes |-> IF Trim(sub.formData.notes) = "" THEN NULL ELSE <<Trim(sub.formData.notes)>>,
   created_by |-> sub.user]

\* One element of itemsToInsert.
itemToInsert(invoice_id, item) ==
  [invoice_id |-> invoice_id,
   item_type |-> "inventory",
   product_id |-> item.product_id,
   description |-> item.narration,
   quantity |-> item.quantity,
   unit |-> item.unit,
   unit_price |-> item.rate,
   line_total |-> item.amount,
   tax_amount |-> 0,
   expense_account_id |-> NULL,
   asset_account_id |-> NULL]

\* auth.getUser() returns, with a user or without; the call builds invoiceData
\* and sends the insert into purchase_invoices.
GetUserReturns(k) ==
  /\ submits[k].at = "getUser"
  /\ \E user \in {"u1", ""} :
       submits' = [submits EXCEPT ![k] = [@ EXCEPT !.at = "insertInvoice",
                                                   !.user = user,
                                                   !.inserts = @ + 1]]
  /\ UNCHANGED <<canManage, formData, lineItems, heap, modalOpen, invoices, loadingInvoices,
                 purchase_invoices, purchase_invoice_items, dbVars, docsVars>>

\* The insert into purchase_invoices returns.  With an error the call alerts
\* and ends.  With the row, the call maps the lines its array holds, as they
\* are now, to itemsToInsert and sends the insert into purchase_invoice_items.
InvoiceInsertReturns(k) ==
  /\ submits[k].at = "insertInvoice"
  /\ \/ /\ SetObjects(lineItems, heap,
                      [submits EXCEPT ![k] = Ends(@, Alert("Failed to save invoice: "))])
        /\ UNCHANGED purchase_invoices
     \/ LET id == Len(purchase_invoices) + 1
            sub == submits[k]
        IN /\ purchase_invoices' = Append(purchase_invoices, [id |-> id, data |-> invoiceData(sub)])
           /\ submits' = [submits EXCEPT ![k] =
                            [@ EXCEPT !.at = "insertItems",
                                      !.invoice = id,
                                      !.itemsToInsert =
                                         [i \in DOMAIN sub.lineItems |->
                                            itemToInsert(id, heap[sub.lineItems[i]])],
                                      !.inserts = @ + 1]]
           /\ UNCHANGED <<lineItems, heap>>
  /\ UNCHANGED <<canManage, formData, modalOpen, invoices, loadingInvoices,
                 purchase_invoice_items, dbVars, docsVars>>

ItemsInsertReturnsCompensating(k) ==
  /\ submits[k].at = "insertItems"
  /\ \/ /\ SetObjects(lineItems, heap,
                      [submits EXCEPT ![k] = Ends(@, Alert("Failed to save invoice: "))])
        /\ purchase_invoices' = SelectSeq(purchase_invoices,
                                          LAMBDA row : row.id # submits[k].invoice)
        /\ UNCHANGED <<formData, modalOpen, loadingInvoices, purchase_invoice_items>>
     \/ /\ purchase_invoice_items' = purchase_invoice_items \o submits[k].itemsToInsert
        /\ modalOpen' = FALSE
        /\ ResetForm([submits EXCEPT ![k] =
                        [@ EXCEPT !.at = "loadInvoices",
                                  !.alert = Alert("Purchase invoice created successfully")]])
        /\ loadingInvoices' = TRUE
        /\ UNCHANGED purchase_invoices
  /\ UNCHANGED <<canManage, invoices, dbVars, docsVars>>

\* The insert into purchase_invoice_items returns.  With an error the call
\* alerts and ends.  Without, it alerts, closes the modal, resets the form and
\* calls loadInvoices.
ItemsInsertReturns(k) ==
  /\ submits[k].at = "insertItems"
  /\ \/ /\ SetObjects(lineItems, heap,
                      [submits EXCEPT ![k] = Ends(@, Alert("Failed to save invoice: "))])
        /\ UNCHANGED <<formData, modalOpen, loadingInvoices, purchase_invoice_items>>
     \/ /\ purchase_invoice_items' = purchase_invoice_items \o submits[k].itemsToInsert
        /\ modalOpen' = FALSE
        /\ ResetForm([submits EXCEPT ![k] =
                        [@ EXCEPT !.at = "loadInvoices",
                                  !.alert = Alert("Purchase invoice created successfully")]])
        /\ loadingInvoices' = TRUE
  /\ UNCHANGED <<canManage, invoices, purchase_invoices, dbVars, docsVars>>

\* The select of loadInvoices returns, with the rows or with an error, and
\* the call of handleSubmit ends.
LoadInvoicesReturns(k) ==
  /\ submits[k].at = "loadInvoices"
  /\ \/ invoices' = purchase_invoices
     \/ UNCHANGED invoices
  /\ loadingInvoices' = FALSE
  /\ SetObjects(lineItems, heap, [submits EXCEPT ![k] = Ends(@, @.alert)])
  /\ UNCHANGED <<canManage, formData, modalOpen,
                 purchase_invoices, purchase_invoice_items, dbVars, docsVars>>

\* The fields the submit runs edit, and the texts they type.
SubmitRunFields == {"product_id", "quantity", "rate"}

SubmitRunValues == [product_id |-> {"p1"}, quantity |-> {"0"}, rate |-> {"2"}]

InitPurchase ==
  /\ QuietDb
  /\ canManage \in BOOLEAN
  /\ PurchaseMounted
  /\ isOpen = FALSE
  /\ DocsMounted

\* The form being filled in and submitted.
NextSubmit ==
  \/ handleAddLine
  \/ handleRemoveLine
  \/ handleLineChange(SubmitRunFields, SubmitRunValues)
  \/ OnSupplierChange({"sup1"})
  \/ OnTaxPercentChange({"50"})
  \/ OpenModal
  \/ CloseModal
  \/ \E k \in Slots :
       \/ handleSubmit(k)
       \/ GetUserReturns(k)
       \/ InvoiceInsertReturns(k)
       \/ ItemsInsertReturns(k)
       \/ LoadInvoicesReturns(k)

SpecSubmit == InitPurchase /\ [][NextSubmit]_vars

\* The fields of a line the form runs edit, and the texts they type: a
\* product of the list and one that is not in it, numbers and texts that are
\* no number.
FormRunFields == {"product_id", "quantity", "rate", "narration"}

FormRunValues ==
  [product_id |-> {"p1", "p9"}, quantity |-> {"2", "abc"}, rate |-> {"2", ""},
   narration |-> {"note"}]

FormTextFields == {"invoice_number"}

FormTextValues == [invoice_number |-> {" INV-7 "}]

\* The form being opened, filled in and closed, never submitted.
NextForm ==
  \/ handleAddLine
  \/ handleRemoveLine
  \/ handleLineChange(FormRunFields, FormRunValues)
  \/ OpenModal
  \/ CloseModal
  \/ OnSupplierChange({"sup1"})
  \/ OnTextChange(FormTextFields, FormTextValues)
  \/ OnCurrencyChange
  \/ OnExchangeRateChange({"0", "abc", "2", "-1"})
  \/ OnTaxPercentChange({"10", "abc"})

SpecForm == InitPurchase /\ [][NextForm]_vars

\* ------------------------------------------------------- SourceDocuments

\* The files the user has at hand, by name, and their sizes.
FileSizes == [a |-> 10, b |-> 20]

Files == DOMAIN FileSizes

\* The document types the select of a queue item offers, in the model.
DocTypes == {"COA", "Other"}

\* The n-th of the identities no array holds.
NthFree(n) ==
  LET free == QueueIds \ Range(uploadQueue \o upload.uploadQueue)
  IN CHOOSE o \in free : Cardinality({x \in free : x < o}) = n - 1

\* The queue arr, the heap h and the call up become the state.  Identities
\* are names only: the objects are named again in the order the queue and the
\* closure hold them, and what nothing holds is gone.
SetQueue(arr, h, up) ==
  LET held == Distinct(arr \o up.uploadQueue)
      name == [o \in Range(held) |-> CHOOSE n \in DOMAIN held : held[n] = o]
  IN /\ uploadQueue' = [i \in DOMAIN arr |-> name[arr[i]]]
     /\ queueItems' = [n \in QueueIds |-> IF n \in DOMAIN held THEN h[held[n]] ELSE NoItem]
     /\ upload' = [up EXCEPT !.uploadQueue = [i \in DOMAIN up.uploadQueue |->
                                                name[up.uploadQueue[i]]]]

\* setUploadQueue(prev => [...prev, ...newUploads]) for the files given: one
\* new object a file, of type Other, at the end of a new array.
Enqueue(files) ==
  SetQueue(uploadQueue \o [n \in DOMAIN files |-> NthFree(n)],
           [o \in QueueIds |->
              IF \E n \in DOMAIN files : NthFree(n) = o
                THEN [file |-> files[CHOOSE n \in DOMAIN files : NthFree(n) = o],
                      doc_type |-> "Other"]
                ELSE queueItems[o]],
           upload)

\* The lists of files one event can bring while the queue has room.
FilesToAdd == {files \in SeqsUpTo(Files, MaxQueue) :
                 files # <<>> /\ Len(uploadQueue) + Len(files) <= MaxQueue}

\* handlePaste: nothing unless the modal is open and the clipboard holds
\* files.
handlePaste ==
  /\ isOpen
  /\ \E files \in FilesToAdd : Enqueue(files)
  /\ UNCHANGED <<isOpen, documents, loadingDocuments, uploading, loads, dateNow, bucket,
                 product_source_documents, dbVars, purchaseVars>>

handleFileSelect ==
  /\ \E files \in FilesToAdd : Enqueue(files)
  /\ UNCHANGED <<isOpen, documents, loadingDocuments, uploading, loads, dateNow, bucket,
                 product_source_documents, dbVars, purchaseVars>>

handleDrop ==
  /\ \E files \in FilesToAdd : Enqueue(files)
  /\ UNCHANGED <<isOpen, documents, loadingDocuments, uploading, loads, dateNow, bucket,
                 product_source_documents, dbVars, purchaseVars>>

\* removeFromQueue(index): a new array without the item.
removeFromQueue ==
  /\ \E index \in DOMAIN uploadQueue :
       SetQueue([i \in 1..(Len(uploadQueue) - 1) |->
                   IF i < index THEN uploadQueue[i] ELSE uploadQueue[i + 1]],
                queueItems, upload)
  /\ UNCHANGED <<isOpen, documents, loadingDocuments, uploading, loads, dateNow, bucket,
                 product_source_documents, dbVars, purchaseVars>>

\* updateQueueItemType(index, doc_type).  The new array is a shallow copy of
\* the old: the write is to the object the old array, and a closure that
\* captured it, hold too.
updateQueueItemType ==
  /\ \E index \in DOMAIN uploadQueue : \E doc_type \in DocTypes :
       queueItems' = [queueItems EXCEPT ![uploadQueue[index]].doc_type = doc_type]
  /\ UNCHANGED <<isOpen, documents, loadingDocuments, uploading, uploadQueue, upload, loads,
                 dateNow, bucket, product_source_documents, dbVars, purchaseVars>>

\* Date.now() moves on.
Tick ==
  /\ dateNow < MaxNow
  /\ dateNow' = dateNow + 1
  /\ UNCHANGED <<isOpen, documents, loadingDocuments, uploading, uploadQueue, queueItems, upload,
                 loads, bucket, product_source_documents, dbVars, purchaseVars>>

\* The select of a call of loadDocuments returns, with the rows or with an
\* error; finally setLoading(false).
LoadDocumentsReturns ==
  /\ loads > 0
  /\ loads' = loads - 1
  /\ \/ documents' = product_source_documents
     \/ UNCHANGED documents
  /\ loadingDocuments' = FALSE
  /\ UNCHANGED <<isOpen, uploading, uploadQueue, queueItems, upload, dateNow, bucket,
                 product_source_documents, dbVars, purchaseVars>>

\* The files of the items an array holds.
FilesOf(arr) == [i \in DOMAIN arr |-> queueItems[arr[i]].file]

\* uploadAll up to its first await, from the button shown while the queue is
\* not empty and enabled while uploading is false.  The closure holds the
\* uploadQueue array of the render the handler belongs to.
uploadAll ==
  /\ Len(uploadQueue) # 0
  /\ ~uploading
  /\ upload.call < MaxUploadCalls
  /\ uploading' = TRUE
  /\ upload' = [NoUpload EXCEPT !.at = "getUser",
                                !.call = upload.call + 1,
                                !.uploadQueue = uploadQueue,
                                !.captured = FilesOf(uploadQueue)]
  /\ UNCHANGED <<isOpen, documents, loadingDocuments, uploadQueue, queueItems, loads, dateNow,
                 bucket, product_source_documents, dbVars, purchaseVars>>

\* uploadAll called once more, from the same button, after a call that threw.
uploadAllAgain ==
  /\ Len(uploadQueue) # 0
  /\ ~uploading
  /\ upload.call = MaxUploadCalls
  /\ upload.alert = "Failed to upload documents: "
  /\ uploading' = TRUE
  /\ upload' = [NoUpload EXCEPT !.at = "getUser",
                                !.call = upload.call + 1,
                                !.uploadQueue = uploadQueue,
                                !.captured = FilesOf(uploadQueue)]
  /\ UNCHANGED <<isOpen, documents, loadingDocuments, uploadQueue, queueItems, loads, dateNow,
                 bucket, product_source_documents, dbVars, purchaseVars>>

\* The call as the iteration for the i-th item of its array starts: filePath
\* is made of Date.now() and the file's name, and the upload is sent.
AtFile(up, i) ==
  [up EXCEPT !.at = "upload",
             !.i = i,
             !.filePath = <<dateNow, queueItems[up.uploadQueue[i]].file>>]

ThrownKeepingFlag(up) ==
  /\ SetQueue(uploadQueue, queueItems,
              [up EXCEPT !.at = "idle", !.alert = "Failed to upload documents: ",
                         !.uploadQueue = <<>>, !.user = "", !.i = 0,
                         !.filePath = NoUpload.filePath, !.row = <<>>])
  /\ UNCHANGED uploading

\* The call throws: the catch alerts, finally setUploading(false).  The
\* closure and the locals of the call are let go.
Thrown(up) ==
  /\ SetQueue(uploadQueue, queueItems,
              [up EXCEPT !.at = "idle", !.alert = "Failed to upload documents: ",
                         !.uploadQueue = <<>>, !.user = "", !.i = 0,
                         !.filePath = NoUpload.filePath, !.row = <<>>])
  /\ uploading' = FALSE

\* auth.getUser() returns, with a user or without.
UploadGetUserReturns ==
  /\ upload.at = "getUser"
  /\ \E user \in {"u1", ""} :
       IF user = "" THEN Thrown(upload)
       ELSE /\ upload' = AtFile([upload EXCEPT !.user = user], 1)
            /\ UNCHANGED <<uploading, uploadQueue, queueItems>>
  /\ UNCHANGED <<isOpen, documents, loadingDocuments, loads, dateNow, bucket,
                 product_source_documents, dbVars, purchaseVars>>

\* The row the call inserts for the item of its iteration, as the item is
\* when the insert is sent.
DocumentRow(up) ==
  LET item == queueItems[up.uploadQueue[up.i]]
  IN [source_id |-> "src1",
      doc_type |-> item.doc_type,
      file_url |-> up.filePath,
      original_filename |-> item.file,
      file_size |-> FileSizes[item.file],
      uploaded_by |-> up.user]

UploadReturnsIgnoringError ==
  /\ upload.at = "upload"
  /\ \/ bucket' = bucket \cup {upload.filePath}
     \/ UNCHANGED bucket
  /\ upload' = [upload EXCEPT !.at = "insert",
                              !.row = DocumentRow(upload),
                              !.done = Append(@, [op |-> "upload", i |-> upload.i])]
  /\ UNCHANGED <<isOpen, documents, loadingDocuments, uploading, uploadQueue, queueItems, loads,
                 dateNow, product_source_documents, dbVars, purchaseVars>>

\* The storage upload returns.  With an error, which a path the bucket
\* already has always is, the call throws.  Without, the object is stored
\* and the call sends the insert of the item's row.
UploadReturns ==
  /\ upload.at = "upload"
  /\ \/ /\ Thrown(upload)
        /\ UNCHANGED bucket
     \/ /\ upload.filePath \notin bucket
        /\ bucket' = bucket \cup {upload.filePath}
        /\ upload' = [upload EXCEPT !.at = "insert",
                                    !.row = DocumentRow(upload),
                                    !.done = Append(@, [op |-> "upload", i |-> upload.i])]
        /\ UNCHANGED <<uploading, uploadQueue, queueItems>>
  /\ UNCHANGED <<isOpen, documents, loadingDocuments, loads, dateNow,
                 product_source_documents, dbVars, purchaseVars>>

InsertReturnsKeepingNewFiles ==
  /\ upload.at = "insert"
  /\ \/ /\ Thrown(upload)
        /\ UNCHANGED <<product_source_documents, loads, loadingDocuments>>
     \/ LET up == [upload EXCEPT !.done = Append(@, [op |-> "insert", i |-> upload.i])]
        IN /\ product_source_documents' = Append(product_source_documents, upload.row)
           /\ IF upload.i < Len(upload.uploadQueue)
                THEN /\ upload' = AtFile(up, upload.i + 1)
                     /\ UNCHANGED <<uploading, uploadQueue, queueItems, loads, loadingDocuments>>
                ELSE /\ SetQueue(SelectSeq(uploadQueue, LAMBDA o : o \notin Range(upload.uploadQueue)),
                                 queueItems,
                                 [up EXCEPT !.at = "idle",
                                            !.alert = "Successfully uploaded",
                                            !.cleared = FilesOf(uploadQueue),
                                            !.uploadQueue = <<>>, !.user = "", !.i = 0,
                                            !.filePath = NoUpload.filePath, !.row = <<>>])
                     /\ loads' = loads + 1
                     /\ loadingDocuments' = TRUE
                     /\ uploading' = FALSE
  /\ UNCHANGED <<isOpen, documents, dateNow, bucket, dbVars, purchaseVars>>

\* The insert into product_source_documents returns.  With an error the call
\* throws.  Without, the call goes on to the next item of its array; after
\* the last it empties the queue, calls loadDocuments, alerts, and finally
\* setUploading(false).
InsertReturns ==
  /\ upload.at = "insert"
  /\ \/ /\ Thrown(upload)
        /\ UNCHANGED <<product_source_documents, loads, loadingDocuments>>
     \/ LET up == [upload EXCEPT !.done = Append(@, [op |-> "insert", i |-> upload.i])]
        IN /\ product_source_documents' = Append(product_source_documents, upload.row)
           /\ IF upload.i < Len(upload.uploadQueue)
                THEN /\ upload' = AtFile(up, upload.i + 1)
                     /\ UNCHANGED <<uploading, uploadQueue, queueItems, loads, loadingDocuments>>
                ELSE /\ SetQueue(<<>>, queueItems,
                                 [up EXCEPT !.at = "idle",
                                            !.alert = "Successfully uploaded",
                                            !.cleared = FilesOf(uploadQueue),
                                            !.uploadQueue = <<>>, !.user = "", !.i = 0,
                                            !.filePath = NoUpload.filePath, !.row = <<>>])
                     /\ loads' = loads + 1
                     /\ loadingDocuments' = TRUE
                     /\ uploading' = FALSE
  /\ UNCHANGED <<isOpen, documents, dateNow, bucket, dbVars, purchaseVars>>

InitDocs ==
  /\ QuietDb
  /\ canManage = TRUE
  /\ PurchaseMounted
  /\ isOpen = TRUE
  /\ DocsMounted

\* The modal of one source, open: files are queued and uploaded.
NextUpload ==
  \/ handlePaste
  \/ handleFileSelect
  \/ handleDrop
  \/ removeFromQueue
  \/ updateQueueItemType
  \/ Tick
  \/ LoadDocumentsReturns
  \/ uploadAll
  \/ UploadGetUserReturns
  \/ UploadReturns
  \/ InsertReturns

SpecUpload == InitDocs /\ [][NextUpload]_vars

\* Files are selected and uploaded, and a call that threw is made again.
NextUploadAgain ==
  \/ handleFileSelect
  \/ removeFromQueue
  \/ updateQueueItemType
  \/ Tick
  \/ uploadAll
  \/ uploadAllAgain
  \/ UploadGetUserReturns
  \/ UploadReturns
  \/ InsertReturns

SpecUploadAgain == InitDocs /\ [][NextUploadAgain]_vars

\* ------------------------------------------------------------- properties

Running(s) == pc[s] \in {"delete", "deleting", "update", "insert", "return"}

Ended(s) == pc[s] = "done"

Returned(s) == Ended(s) /\ result[s].kind = "returned"

Succeeded(s) == Returned(s) /\ ~IsNull(result[s].value)

Failed(s) == Ended(s) /\ result[s].kind = "raised"

ReadPatch(s) == Len(tx[s].p_invoice_updates) = 1

ReadItems(s) == Len(tx[s].p_new_items) = 1

PatchOf(s) == tx[s].p_invoice_updates[1]

ItemsOf(s) == tx[s].p_new_items[1]

\* The rows the call of session s inserts: one per element of its array.
NewRows(s) ==
  {ItemRow(tx[s].p_invoice_id, <<tx[s].call, i>>, ItemsOf(s)[i]) : i \in 1..Len(ItemsOf(s))}

\* The invoice of session s as its call leaves it: the old header patched,
\* the replacement items.
NewInvoice(s) ==
  [header |-> {SetClause(h, PatchOf(s), tx[s].call) : h \in old[s].invoice.header},
   items |-> NewRows(s)]

\* No other session committed to the invoice of s since the call of s began.
Undisturbed(s) == tx[s].p_invoice_id \notin disturbed[s]

HeaderOf(id) == CHOOSE h \in sales_invoices : h.id = id

OldHeaderOf(s) == CHOOSE h \in old[s].invoice.header : TRUE

Existed(s) == old[s].invoice.header # {}

\* C1: while a call runs on an invoice, and once it has failed, a reader of
\* the invoice sees the header and the items the invoice had when the call
\* began; once the call has returned the reader sees the patched header and
\* the replacement items.  No other combination is ever read (for as long as
\* no other session commits to the same invoice).
C1_ReaderSeesOldOrNew ==
  \A s \in Sessions :
    pc[s] # "idle" /\ Undisturbed(s) =>
      ReadInvoice(tx[s].p_invoice_id) = IF Returned(s) THEN NewInvoice(s) ELSE old[s].invoice

\* C1 witness: a call has deleted old items, rewritten the header and inserted
\* new items, none of it committed, while a reader still sees the old invoice.
C1_Witness ==
  \E s \in Sessions :
    /\ pc[s] = "return" /\ Undisturbed(s)
    /\ tx[s].del # {} /\ tx[s].hnew # {} /\ tx[s].ins # {}
    /\ NewInvoice(s) # old[s].invoice
    /\ ReadInvoice(tx[s].p_invoice_id) = old[s].invoice

\* C2: once two calls on the same existing invoice have both committed, the
\* invoice's items are the replacement items of one of the two calls.
C2_NoUnionOfReplacements ==
  \A s \in Sessions : \A o \in Others(s) :
    /\ Succeeded(s) /\ Succeeded(o)
    /\ tx[s].p_invoice_id = tx[o].p_invoice_id
    => ReadInvoice(tx[s].p_invoice_id).items \in {NewRows(s), NewRows(o)}

\* C3: after a successful call with N replacement items the invoice owns
\* exactly N items, the replacement items, however many it owned before.
C3_ExactlyTheReplacementItems ==
  \A s \in Sessions :
    Succeeded(s) =>
      /\ ReadInvoice(tx[s].p_invoice_id).items = NewRows(s)
      /\ Cardinality(ReadInvoice(tx[s].p_invoice_id).items) = Len(ItemsOf(s))

\* C3 witness: a successful call that replaced one item by MaxItems items.
C3_Witness ==
  \E s \in Sessions :
    /\ Succeeded(s)
    /\ Cardinality(old[s].invoice.items) = 1
    /\ Len(ItemsOf(s)) = MaxItems
    /\ old[s].invoice.items \cap sales_invoice_items = {}

\* C4: a call with an identifier that matches no invoice fails, and no item
\* row of that identifier exists afterwards.
C4_MissingInvoiceFails ==
  \A s \in Sessions :
    Ended(s) /\ ~Existed(s) =>
      /\ Failed(s)
      /\ ReadInvoice(tx[s].p_invoice_id).items = {}

\* C5: after a successful call every updatable column whose key the patch
\* does not carry has the value it had before, and updated_at is the time of
\* the call, later than it was, also when the patch is empty.
C5_AbsentKeysKeepTheirColumns ==
  \A s \in Sessions :
    Succeeded(s) =>
      /\ \A c \in UpdatableCols \ DOMAIN PatchOf(s) :
           HeaderOf(tx[s].p_invoice_id)[c] = OldHeaderOf(s)[c]
      /\ HeaderOf(tx[s].p_invoice_id).id = OldHeaderOf(s).id
      /\ HeaderOf(tx[s].p_invoice_id).updated_at = tx[s].call
      /\ HeaderOf(tx[s].p_invoice_id).updated_at > OldHeaderOf(s).updated_at

\* C5 witness: a successful call whose patch carries some updatable key, and
\* changed that column, while a column that held a value kept it.
C5_Witness ==
  \E s \in Sessions :
    /\ Succeeded(s)
    /\ \E c \in UpdatableCols \cap DOMAIN PatchOf(s) :
         HeaderOf(tx[s].p_invoice_id)[c] # OldHeaderOf(s)[c]
    /\ \E c \in UpdatableCols \ DOMAIN PatchOf(s) :
         ~IsNull(OldHeaderOf(s)[c]) /\ HeaderOf(tx[s].p_invoice_id)[c] = OldHeaderOf(s)[c]

\* The updatable keys the patch of s carries with JSON null, and with the
\* empty string.
NullKeys(s) == {c \in UpdatableCols \cap DOMAIN PatchOf(s) : PatchOf(s)[c] = NULL}

EmptyKeys(s) == {c \in UpdatableCols \cap DOMAIN PatchOf(s) : PatchOf(s)[c] = <<"">>}

\* C6 as claimed: a column whose key the patch carries with null or with the
\* empty string has, after the call, the value it had before.
C6_NullOrEmptyLeavesUnchanged ==
  \A s \in Sessions :
    Ended(s) /\ ReadPatch(s) /\ Existed(s) =>
      \A c \in NullKeys(s) \cup EmptyKeys(s) :
        HeaderOf(tx[s].p_invoice_id)[c] = OldHeaderOf(s)[c]

\* C6 amended: a column whose key the patch carries with JSON null has, after
\* the call, the value it had before.  The empty string is a value: a
\* successful call stores it in a text column, and a call on an existing
\* invoice whose patch carries it for a date, numeric, integer or uuid column
\* fails.
C6_NullLeavesUnchangedEmptyIsAValue ==
  \A s \in Sessions :
    Ended(s) /\ ReadPatch(s) /\ Existed(s) =>
      /\ \A c \in NullKeys(s) : HeaderOf(tx[s].p_invoice_id)[c] = OldHeaderOf(s)[c]
      /\ Succeeded(s) => \A c \in EmptyKeys(s) \cap TextCols :
                           HeaderOf(tx[s].p_invoice_id)[c] = <<"">>
      /\ EmptyKeys(s) \ TextCols # {} => Failed(s)

\* C6 witness: a successful call whose patch carries null for a column that
\* held a value and the empty string for a text column, now empty.
C6_Witness ==
  \E s \in Sessions :
    /\ Succeeded(s)
    /\ \E c \in NullKeys(s) : ~IsNull(OldHeaderOf(s)[c])
    /\ \E c \in EmptyKeys(s) \cap TextCols :
         /\ HeaderOf(tx[s].p_invoice_id)[c] = <<"">>
         /\ OldHeaderOf(s)[c] # <<"">>

\* The texts of the model that are no value of a typed column.
Malformed == {"", "not-a-date", "not-a-uuid", "abc", "30.5"}

\* The patch of s carries a malformed text for a typed column, or an element
\* of its array carries one.
PatchMalformed(s) ==
  /\ ReadPatch(s)
  /\ \E c \in (UpdatableCols \ TextCols) \cap DOMAIN PatchOf(s) :
       ~IsNull(PatchOf(s)[c]) /\ PatchOf(s)[c][1] \in Malformed

ItemMalformed(s) ==
  /\ ReadItems(s)
  /\ \E i \in 1..Len(ItemsOf(s)) : ItemsOf(s)[i].quantity[1] \in Malformed

\* C7: a call on an existing invoice whose patch holds a text that cannot be
\* cast, or any call whose array holds one, fails, and then the invoice's
\* header and items and every product's stock are as before the call.
C7_CoercionFailureFailsTheCall ==
  \A s \in Sessions :
    Ended(s) /\ ((Existed(s) /\ PatchMalformed(s)) \/ ItemMalformed(s)) =>
      /\ Failed(s)
      /\ ReadInvoice(tx[s].p_invoice_id) = old[s].invoice
      /\ current_stock = old[s].stock

\* C7 witness: a call that deleted an old item and then failed on a cast of
\* its patch.
C7_Witness ==
  \E s \in Sessions :
    /\ Failed(s) /\ result[s].error = "invalid input syntax"
    /\ PatchMalformed(s)
    /\ Len(tx[s].log) = 1 /\ tx[s].log[1].stmt = "delete" /\ tx[s].log[1].rows = 1
    /\ old[s].invoice.items \subseteq sales_invoice_items

\* The case of C8 and C9: the invoice owned one item, of product p, and the
\* call replaces it by one item of p.
OneForOne(s, p) ==
  /\ ReadItems(s) /\ Len(ItemsOf(s)) = 1
  /\ \A r \in NewRows(s) : ~ItemRowRaises(r) /\ r.product_id = <<p>> /\ ForeignKeysHold(r)
  /\ Cardinality(old[s].invoice.items) = 1
  /\ \A r \in old[s].invoice.items : r.product_id = <<p>>

\* X, the quantity of the old item, and Y, that of the replacement.
OldQty(s) == (CHOOSE r \in old[s].invoice.items : TRUE).quantity[1]

NewQty(s) == (CHOOSE r \in NewRows(s) : TRUE).quantity[1]

\* C8: with on-hand quantity Q and one old item of quantity X, a call that
\* replaces it by an item of quantity Y <= Q + X and is not aborted from
\* outside succeeds and leaves the on-hand quantity Q + X - Y.
C8_StockAfterReplacement ==
  \A s \in Sessions : \A p \in Products :
    /\ Ended(s) /\ Existed(s) /\ OneForOne(s, p)
    /\ NewQty(s) <= old[s].stock[p] + OldQty(s)
    /\ result[s].error # "aborted"
    => /\ Succeeded(s)
       /\ current_stock[p] = old[s].stock[p] + OldQty(s) - NewQty(s)

\* C8 witness: Q < Y <= Q + X, the call succeeded.
C8_Witness ==
  \E s \in Sessions : \E p \in Products :
    /\ Succeeded(s) /\ OneForOne(s, p)
    /\ old[s].stock[p] < NewQty(s)
    /\ current_stock[p] = old[s].stock[p] + OldQty(s) - NewQty(s)

\* C9: a call whose replacement asks for more than Q + X fails, and after any
\* failed call (a rejected insert, an abort after the old items were deleted)
\* the stock, the items and the header are as before the call; the caller gets
\* the error.
C9_RejectionFailsTheCall ==
  \A s \in Sessions :
    /\ \A p \in Products :
         /\ Ended(s) /\ OneForOne(s, p)
         /\ NewQty(s) > old[s].stock[p] + OldQty(s)
         => Failed(s)
    /\ Failed(s) => /\ current_stock = old[s].stock
                    /\ ReadInvoice(tx[s].p_invoice_id) = old[s].invoice
                    /\ result[s].error # ""

\* C9 witness: Y > Q + X, the old item was deleted, the insert was rejected.
C9_Witness ==
  \E s \in Sessions : \E p \in Products :
    /\ Failed(s) /\ result[s].error = "insufficient stock"
    /\ OneForOne(s, p)
    /\ NewQty(s) > old[s].stock[p] + OldQty(s)
    /\ \E i \in DOMAIN tx[s].log : tx[s].log[i].stmt = "delete" /\ tx[s].log[i].rows = 1

\* C10: within a call no INSERT statement runs before the DELETE statement,
\* and a transaction that holds inserted rows has run its DELETE.
C10_DeletesBeforeInserts ==
  \A s \in Sessions :
    /\ \A i, j \in DOMAIN tx[s].log :
         tx[s].log[i].stmt = "insert" /\ tx[s].log[j].stmt = "delete" => j < i
    /\ tx[s].ins # {} => \E j \in DOMAIN tx[s].log : tx[s].log[j].stmt = "delete"

\* C10 witness: a call has deleted an old item and then inserted new ones.
C10_Witness ==
  \E s \in Sessions : \E i, j \in DOMAIN tx[s].log :
    /\ tx[s].log[j].stmt = "delete" /\ tx[s].log[j].rows > 0
    /\ tx[s].log[i].stmt = "insert" /\ tx[s].log[i].rows > 0
    /\ j < i

\* An item row without its generated identifier.
ItemContent(r) == [r EXCEPT !.rid = <<0, 0>>]

\* Two sets of item rows hold the same items, as many times each.
SameItems(A, B) ==
  \A c \in {ItemContent(r) : r \in A \cup B} :
    Cardinality({r \in A : ItemContent(r) = c}) = Cardinality({r \in B : ItemContent(r) = c})

\* The call of s repeats the call of o: the same arguments, begun after o
\* committed, on the invoice as o left it.
Repeats(s, o) ==
  /\ ReadPatch(s) /\ ReadItems(s) /\ ReadPatch(o) /\ ReadItems(o)
  /\ tx[s].p_invoice_id = tx[o].p_invoice_id
  /\ PatchOf(s) = PatchOf(o)
  /\ ItemsOf(s) = ItemsOf(o)
  /\ tx[s].call > tx[o].call
  /\ old[s].invoice.items = NewRows(o)

\* C11: when a call that succeeded is made again with the same invoice id,
\* patch and items and succeeds again, the invoice's items (but for their
\* generated identifiers), its header but for updated_at, and every product's
\* stock are what they were after the first call.
C11_ReinvokingIsSafe ==
  \A s \in Sessions : \A o \in Others(s) :
    Succeeded(o) /\ Succeeded(s) /\ Repeats(s, o) =>
      /\ SameItems(ReadInvoice(tx[s].p_invoice_id).items, old[s].invoice.items)
      /\ \A c \in HeaderCols \ {"updated_at"} :
           HeaderOf(tx[s].p_invoice_id)[c] = OldHeaderOf(s)[c]
      /\ current_stock = old[s].stock

\* C11 witness: a call that changed the header, replaced the items and moved
\* the stock has been made twice, both times with success.
C11_Witness ==
  \E s \in Sessions : \E o \in Others(s) :
    /\ Succeeded(o) /\ Succeeded(s) /\ Repeats(s, o)
    /\ Len(ItemsOf(s)) = MaxItems
    /\ PatchOf(s) # <<>>
    /\ old[o].stock # old[s].stock
    /\ \E c \in UpdatableCols : OldHeaderOf(o)[c] # OldHeaderOf(s)[c]
    /\ ReadInvoice(tx[s].p_invoice_id).items # old[s].invoice.items

\* The elements of the array of s whose delivery_challan_item_id is the empty
\* string.
EmptyChallanItems(s) ==
  {i \in 1..Len(ItemsOf(s)) : JsonText(ItemsOf(s)[i], "delivery_challan_item_id") = <<"">>}

\* C12: an item whose delivery_challan_item_id is the empty string makes no
\* cast fail (a call whose items are otherwise well formed never ends with a
\* cast error) and its row is inserted with the reference NULL.
C12_EmptyChallanReferenceIsNull ==
  \A s \in Sessions :
    Ended(s) /\ ReadItems(s) =>
      /\ (\A i \in 1..Len(ItemsOf(s)) : ItemsOf(s)[i] \in GoodItems)
           => result[s].error # "invalid input syntax"
      /\ Returned(s) =>
           \A i \in EmptyChallanItems(s) :
             \E r \in sales_invoice_items :
               /\ r.rid = <<tx[s].call, i>>
               /\ r.invoice_id = tx[s].p_invoice_id
               /\ r.quantity = CastNumeric(ItemsOf(s)[i].quantity)
               /\ IsNull(r.delivery_challan_item_id)

\* C12 witness: a call has inserted an item that came with the empty string
\* next to one that came with a reference.
C12_Witness ==
  \E s \in Sessions :
    /\ Returned(s) /\ ReadItems(s)
    /\ EmptyChallanItems(s) # {}
    /\ \E r \in sales_invoice_items : r.rid[1] = tx[s].call /\ IsNull(r.delivery_challan_item_id)
    /\ \E r \in sales_invoice_items : r.rid[1] = tx[s].call /\ r.delivery_challan_item_id = <<"dc1">>

\* C13: no step of any call turns an updatable column of a header row from a
\* value into NULL, whatever the patch carries; so no sequence of calls does.
C13_NoFieldBecomesNull ==
  [][\A id \in ExistingInvoices : \A c \in UpdatableCols :
       ~IsNull(HeaderOf(id)[c]) => ~IsNull(HeaderOf(id)[c])']_vars

\* C13 witness: a successful call whose patch carried JSON null for two columns
\* that held values; both still hold them.
C13_Witness ==
  \E s \in Sessions :
    /\ Succeeded(s)
    /\ Cardinality(NullKeys(s)) = 2
    /\ \A c \in NullKeys(s) :
         /\ ~IsNull(OldHeaderOf(s)[c])
         /\ HeaderOf(tx[s].p_invoice_id)[c] = OldHeaderOf(s)[c]
    /\ HeaderOf(tx[s].p_invoice_id).updated_at > OldHeaderOf(s).updated_at

\* The value of column c that the text t denotes.
CastTo(c, t) ==
  CASE c \in DateCols -> CastDate(t)
    [] c \in UuidCols -> CastUuid(t)
    [] c \in NumericCols -> CastNumeric(t)
    [] c \in IntegerCols -> CastInteger(t)
    [] OTHER -> t

\* The keys of the patch of s that carry a text its column's type accepts.
CoercibleKeys(s, keys) ==
  {k \in keys \cap DOMAIN PatchOf(s) :
     ~IsNull(PatchOf(s)[k]) /\ ~IsInvalid(CastTo(k, PatchOf(s)[k]))}

\* The field names as claimed, and the column each names.
ClaimedFields == (UpdatableCols \ {"customer_id"}) \cup {"customer_or_supplier_id"}

ColumnOf(k) == IF k = "customer_or_supplier_id" THEN "customer_id" ELSE k

\* C14 as claimed: after a successful call, the column of every claimed field
\* name (customer_or_supplier_id among them) that the patch carries with a
\* text its type accepts holds that value.
C14_ClaimedFieldsAreSet ==
  \A s \in Sessions :
    Succeeded(s) =>
      \A k \in ClaimedFields \cap DOMAIN PatchOf(s) :
        ~IsNull(PatchOf(s)[k]) /\ ~IsInvalid(CastTo(ColumnOf(k), PatchOf(s)[k])) =>
          HeaderOf(tx[s].p_invoice_id)[ColumnOf(k)] = CastTo(ColumnOf(k), PatchOf(s)[k])

\* C14 amended: after a successful call, every updatable column whose own name
\* is a key of the patch (the customer's is customer_id) with a text the
\* column's type accepts holds the value the text denotes; the key
\* customer_or_supplier_id sets no column.
C14_PatchedColumnsAreSet ==
  \A s \in Sessions :
    Succeeded(s) =>
      /\ \A c \in CoercibleKeys(s, UpdatableCols) :
           HeaderOf(tx[s].p_invoice_id)[c] = CastTo(c, PatchOf(s)[c])
      /\ "customer_id" \notin CoercibleKeys(s, UpdatableCols) =>
           HeaderOf(tx[s].p_invoice_id).customer_id = OldHeaderOf(s).customer_id

\* C14 witness: a successful call has set the customer through the key
\* customer_id, and another column of another type with it.
C14_Witness ==
  \E s \in Sessions :
    /\ Succeeded(s)
    /\ Cardinality(CoercibleKeys(s, UpdatableCols)) = 2
    /\ JsonText(PatchOf(s), "customer_id") = <<"C0FFEE02">>
    /\ HeaderOf(tx[s].p_invoice_id).customer_id = <<"c0ffee02">>
    /\ \A c \in CoercibleKeys(s, UpdatableCols) :
         HeaderOf(tx[s].p_invoice_id)[c] # OldHeaderOf(s)[c]

\* The UPDATE statement of the call of s found and rewrote a header row.
UpdatedHeader(s) ==
  \E i \in DOMAIN tx[s].log : tx[s].log[i].stmt = "update" /\ tx[s].log[i].rows = 1

\* The header rows that carry the time stamp of the call of s.
StampedBy(s) == {h \in sales_invoices : h.updated_at = tx[s].call}

\* C15: a call that returns normally returns its p_invoice_id when its UPDATE
\* rewrote the header row, which then carries the call's stamp, and returns
\* NULL, with no header row stamped, when the UPDATE matched no row.
C15_ReturnsIdIffHeaderUpdated ==
  \A s \in Sessions :
    Returned(s) =>
      IF UpdatedHeader(s)
        THEN /\ result[s].value = <<tx[s].p_invoice_id>>
             /\ StampedBy(s) = {HeaderOf(tx[s].p_invoice_id)}
        ELSE /\ IsNull(result[s].value)
             /\ StampedBy(s) = {}

\* C15 witness: a call on an existing invoice returned the invoice's id, and
\* the header row carries its stamp.
C15_Witness ==
  \E s \in Sessions :
    /\ Returned(s) /\ UpdatedHeader(s)
    /\ result[s].value = <<"inv2">>
    /\ tx[s].p_invoice_id = "inv2"
    /\ StampedBy(s) # {}

\* The products of the item rows the transaction of s deleted or inserted.
TouchedProducts(s) ==
  {p \in Products : \E r \in tx[s].del \cup tx[s].ins :
                      r.invoice_id = tx[s].p_invoice_id /\ r.product_id = <<p>>}

\* C16: a step of a call for invoice A changes neither the header nor the
\* items of any other invoice, and changes the stock only of products of the
\* items of A that the call deleted or inserted.
C16_OtherInvoicesUntouched ==
  [][\A s \in Sessions :
       pc[s] # pc'[s] =>
         /\ \A b \in InvoiceIds \ {tx'[s].p_invoice_id} : ReadInvoice(b) = ReadInvoice(b)'
         /\ \A p \in Products \ TouchedProducts(s) : current_stock[p] = current_stock'[p]]_vars

\* C16 witness: a call for inv1 has replaced its item and moved the stock of
\* p1 while no other call was made; inv2 is as it was and so is the stock of p2.
C16_Witness ==
  /\ Succeeded("s1") /\ pc["s2"] = "idle"
  /\ tx["s1"].p_invoice_id = "inv1"
  /\ ReadInvoice("inv1").items # old["s1"].invoice.items
  /\ ReadInvoice("inv1").header # old["s1"].invoice.header
  /\ current_stock["p1"] # old["s1"].stock["p1"]
  /\ current_stock["p2"] = old["s1"].stock["p2"]
  /\ ReadInvoice("inv2") = [header |-> {InitialHeader("inv2")},
                            items |-> {InitialItem("inv2", 2, "p2", 1)}]

\* The patch of s without the keys that name no updatable column.
ListedPart(s) == [k \in UpdatableCols \cap DOMAIN PatchOf(s) |-> PatchOf(s)[k]]

\* C17: whatever keys the patch carries, after a call the invoice's header row
\* is there under its id with the columns it had, and after a successful call
\* it is the row the listed keys of the patch alone produce: a key that names
\* no updatable column changes nothing.
C17_UnlistedKeysAreIgnored ==
  \A s \in Sessions :
    Ended(s) /\ ReadPatch(s) /\ Existed(s) =>
      /\ \E h \in sales_invoices : h.id = tx[s].p_invoice_id
      /\ Cardinality(sales_invoices) = Cardinality(ExistingInvoices)
      /\ DOMAIN HeaderOf(tx[s].p_invoice_id) = HeaderCols
      /\ Succeeded(s) =>
           HeaderOf(tx[s].p_invoice_id) = SetClause(OldHeaderOf(s), ListedPart(s), tx[s].call)

\* C17 witness: a successful call whose patch carried only keys that name no
\* updatable column; the header changed in updated_at alone.
C17_Witness ==
  \E s \in Sessions :
    /\ Succeeded(s)
    /\ DOMAIN PatchOf(s) = {"id", "customer_or_supplier_id"}
    /\ HeaderOf(tx[s].p_invoice_id).id # PatchOf(s)["id"][1]
    /\ HeaderOf(tx[s].p_invoice_id) = [OldHeaderOf(s) EXCEPT !.updated_at = tx[s].call]

\* The sum of the total_amount of a set of item rows.
RECURSIVE SumOfTotals(_)
SumOfTotals(rows) ==
  IF rows = {} THEN 0
  ELSE LET r == CHOOSE r \in rows : TRUE
       IN r.total_amount[1] + SumOfTotals(rows \ {r})

\* total_amount = subtotal + tax_amount - discount_amount in header row h.
TotalsAgree(h) == h.total_amount[1] = h.subtotal[1] + h.tax_amount[1] - h.discount_amount[1]

\* C18: a call on an existing invoice whose patch texts all cast is never
\* stopped at the UPDATE, whatever the totals are; after a successful call the
\* four amount columns hold the patch's numbers as given, and those the patch
\* does not give hold what they held: none is recomputed from the others or
\* from the items.
C18_TotalsAreNotEnforced ==
  \A s \in Sessions :
    Ended(s) /\ ReadPatch(s) /\ Existed(s) =>
      /\ ~SetClauseRaises(PatchOf(s)) => UpdatedHeader(s)
      /\ Succeeded(s) =>
           /\ \A c \in CoercibleKeys(s, NumericCols) :
                HeaderOf(tx[s].p_invoice_id)[c] = CastNumeric(PatchOf(s)[c])
           /\ \A c \in NumericCols \ CoercibleKeys(s, NumericCols) :
                HeaderOf(tx[s].p_invoice_id)[c] = OldHeaderOf(s)[c]

\* C18 witness: a successful call has stored a total_amount that is neither
\* subtotal + tax_amount - discount_amount nor the sum of the items' totals.
C18_Witness ==
  \E s \in Sessions :
    /\ Succeeded(s)
    /\ "total_amount" \in CoercibleKeys(s, NumericCols)
    /\ ReadInvoice(tx[s].p_invoice_id).items # {}
    /\ TotalsAgree(OldHeaderOf(s))
    /\ ~TotalsAgree(HeaderOf(tx[s].p_invoice_id))
    /\ HeaderOf(tx[s].p_invoice_id).total_amount[1] #
         SumOfTotals(ReadInvoice(tx[s].p_invoice_id).items)


\* What handleSubmit asks of the form before it sends anything: the user may
\* manage, a supplier is selected, not every amount is 0, and every line has a
\* product, a quantity above 0 and a rate above 0.
PassesChecks(cm, fd, lines) ==
  /\ cm
  /\ fd.supplier_id # ""
  /\ ~(\A i \in DOMAIN lines : lines[i].amount = 0)
  /\ \A i \in DOMAIN lines :
       /\ lines[i].product_id # ""
       /\ lines[i].quantity > 0
       /\ lines[i].rate > 0

\* C19: a call of handleSubmit sends an insert only if, when it was made, the
\* user might manage, a supplier was selected, not every line amount was 0 and
\* every line had a product, a quantity above 0 and a rate above 0; a row is
\* in purchase_invoices or purchase_invoice_items only through such a call, and
\* a call that ended with the alert of a failed check sent nothing.
C19_NoInsertWithoutValidForm ==
  /\ \A k \in Slots :
       /\ submits[k].at \notin {"idle", "returned"} \/ submits[k].inserts > 0
            => PassesChecks(canManage, submits[k].formData, submits[k].seen)
       /\ submits[k].at = "returned"
            /\ submits[k].alert.text \notin {"Failed to save invoice: ",
                                             "Purchase invoice created successfully"}
            => submits[k].inserts = 0
  /\ Len(purchase_invoices) <= Cardinality({k \in Slots : submits[k].inserts > 0})
  /\ purchase_invoice_items # <<>> => \E k \in Slots : submits[k].inserts > 1

\* A call passed the checks with two lines and sent both inserts.
C19_Witness ==
  \E k \in Slots :
    /\ submits[k].inserts > 1
    /\ Len(submits[k].seen) > 1
    /\ purchase_invoices # <<>>

\* C20: in uploadAll the storage upload of a file has completed before the
\* file's row is inserted, a row is inserted only for a file whose upload
\* succeeded, and the files are processed one at a time in the order of the
\* queue: the call's completed operations are upload 1, insert 1, upload 2,
\* insert 2, ..., each pending operation is for the item of the loop's
\* position, every row names an object the bucket holds, and the rows the call
\* has inserted are those of the first items of its queue, in order.
C20_UploadThenRowInQueueOrder ==
  /\ \A n \in DOMAIN product_source_documents :
       /\ product_source_documents[n].file_url \in bucket
       /\ product_source_documents[n].file_url[2] = product_source_documents[n].original_filename
  /\ \A n \in DOMAIN upload.done :
       upload.done[n] = [op |-> IF n % 2 = 1 THEN "upload" ELSE "insert", i |-> (n + 1) \div 2]
  /\ upload.at = "upload" =>
       /\ Len(upload.done) = 2 * (upload.i - 1)
       /\ upload.filePath[2] = queueItems[upload.uploadQueue[upload.i]].file
  /\ upload.at = "insert" =>
       /\ Len(upload.done) = 2 * upload.i - 1
       /\ upload.row.file_url \in bucket
       /\ upload.row.original_filename = queueItems[upload.uploadQueue[upload.i]].file
  /\ upload.at \in {"upload", "insert"} =>
       LET m == Len(upload.done) \div 2
           base == Len(product_source_documents) - m
       IN /\ base >= 0
          /\ \A j \in 1..m :
               product_source_documents[base + j].original_filename
                 = queueItems[upload.uploadQueue[j]].file

\* A call uploaded and recorded the two files of its queue, b before a.
C20_Witness ==
  /\ upload.at = "idle"
  /\ Len(upload.done) = 4
  /\ Len(product_source_documents) = 2
  /\ product_source_documents[1].original_filename = "b"
  /\ product_source_documents[2].original_filename = "a"

\* The total quantity of the rows given.
RECURSIVE SumOfQuantities(_)
SumOfQuantities(rows) ==
  IF rows = {} THEN 0
  ELSE LET r == CHOOSE r \in rows : TRUE
       IN r.quantity[1] + SumOfQuantities(rows \ {r})

\* The on-hand quantity of product p and the quantity of p in all the sales
\* invoice items that exist.
OnHandAndInvoiced(p) ==
  current_stock[p] + SumOfQuantities({r \in sales_invoice_items : p \in StockRowOf(r)})

\* C21: no step of any call of update_sales_invoice_atomic, ending well or
\* with an error, changes for any product the sum of the on-hand quantity and
\* of the quantities of all existing sales invoice items of the product.
C21_StockIsConserved ==
  [][\A p \in Products : OnHandAndInvoiced(p)' = OnHandAndInvoiced(p)]_vars

\* One call succeeded and moved the stock of a product, the other failed.
C21_Witness ==
  \E s \in Sessions : \E o \in Others(s) : \E p \in Products :
    /\ Succeeded(s)
    /\ Failed(o)
    /\ current_stock[p] # old[s].stock[p]

\* The call k of handleSubmit ended in its catch after it had sent the insert
\* of the items.
ItemsInsertFailed(k) ==
  /\ submits[k].at = "returned"
  /\ submits[k].inserts = 2
  /\ submits[k].alert = Alert("Failed to save invoice: ")

\* C22: when the insert of the items fails after the insert of the header
\* succeeded, the step that handles the failure leaves the header rows, the
\* modal, formData and the lines of the form as they are, and from then on the
\* call's header is in purchase_invoices with no row in purchase_invoice_items.
C22_HeaderStaysWithoutItems ==
  /\ [](\A k \in Slots :
          ItemsInsertFailed(k) =>
            /\ \E n \in DOMAIN purchase_invoices : purchase_invoices[n].id = submits[k].invoice
            /\ \A n \in DOMAIN purchase_invoice_items :
                 purchase_invoice_items[n].invoice_id # submits[k].invoice)
  /\ [][\A k \in Slots :
          submits[k].at = "insertItems" /\ ItemsInsertFailed(k)' =>
            /\ purchase_invoices' = purchase_invoices
            /\ purchase_invoice_items' = purchase_invoice_items
            /\ modalOpen' = modalOpen
            /\ formData' = formData
            /\ LinesOf(lineItems)' = LinesOf(lineItems)]_vars

\* The insert of the items failed with the modal open and the form filled in:
\* the header is stored, no item is, the modal is open, the form is as it was.
C22_Witness ==
  \E k \in Slots :
    /\ ItemsInsertFailed(k)
    /\ modalOpen
    /\ formData.supplier_id = "sup1"
    /\ purchase_invoices # <<>>
    /\ purchase_invoice_items = <<>>
    /\ Len(lineItems) = 2
    /\ \A i \in DOMAIN lineItems : heap[lineItems[i]].amount > 0

\* The call of uploadAll ended with every item of its queue uploaded.
UploadSucceeded == upload.at = "idle" /\ upload.alert = "Successfully uploaded"

\* C23: uploadAll uploads the files that were in the queue when it was
\* called: while it runs its array holds those files and it has gone no
\* further than their number, and when it has succeeded the rows it inserted
\* are those of these files, in order.  The step that ends a successful call
\* leaves the queue empty, whatever the queue held by then.
C23_UploadsCapturedQueueAndEmptiesAll ==
  /\ [](upload.at # "idle" =>
          /\ FilesOf(upload.uploadQueue) = upload.captured
          /\ upload.i <= Len(upload.captured)
          /\ Len(upload.done) <= 2 * Len(upload.captured))
  /\ [](UploadSucceeded =>
          LET m == Len(upload.captured)
              base == Len(product_source_documents) - m
          IN /\ Len(upload.done) = 2 * m
             /\ base >= 0
             /\ \A j \in 1..m :
                  product_source_documents[base + j].original_filename = upload.captured[j])
  /\ [][upload.at # "idle" /\ UploadSucceeded' => uploadQueue' = <<>>]_vars

\* The call was made with a alone in the queue, b was added while it ran, and
\* the call succeeded: the queue is empty and b was never uploaded.
C23_Witness ==
  /\ UploadSucceeded
  /\ upload.captured = <<"a">>
  /\ upload.cleared = <<"a", "b">>
  /\ uploadQueue = <<>>
  /\ \A path \in bucket : path[2] # "b"
  /\ \A n \in DOMAIN product_source_documents :
       product_source_documents[n].original_filename # "b"

\* The call of uploadAll ended in its catch.
UploadFailed == upload.at = "idle" /\ upload.alert = "Failed to upload documents: "

\* The items of the queue, as they are.
QueueContent == [i \in DOMAIN uploadQueue |-> queueItems[uploadQueue[i]]]

\* C24: when uploadAll fails at the k-th file of its queue, the step that
\* handles the failure leaves the bucket, the rows and the queue as they are
\* and sets uploading to false; the rows of the k - 1 files before are in the
\* table, each naming an object of the bucket, and nothing was done for a file
\* after the k-th.  uploading is true exactly while a call runs, so it is false
\* after a successful call too.
C24_FailureKeepsQueueAndStoredFiles ==
  /\ [][upload.at # "idle" /\ UploadFailed' =>
          /\ bucket' = bucket
          /\ product_source_documents' = product_source_documents
          /\ QueueContent' = QueueContent
          /\ uploading' = FALSE]_vars
  /\ [](UploadFailed =>
          LET m == Len(upload.done) \div 2
              base == Len(product_source_documents) - m
          IN /\ m < Len(upload.captured) \/ upload.captured = <<>>
             /\ base >= 0
             /\ \A j \in 1..m :
                  /\ product_source_documents[base + j].original_filename = upload.captured[j]
                  /\ product_source_documents[base + j].file_url \in bucket
             /\ \A n \in DOMAIN upload.done : upload.done[n].i <= m + 1)
  /\ [](uploading <=> upload.at # "idle")

\* A call with a and b in its queue stored a and failed at b; the queue still
\* held both, and the call made again stored a a second time, then b.
C24_Witness ==
  /\ UploadSucceeded
  /\ upload.call = MaxUploadCalls + 1
  /\ upload.captured = <<"a", "b">>
  /\ Len(product_source_documents) = 3
  /\ product_source_documents[1].original_filename = "a"
  /\ product_source_documents[2].original_filename = "a"
  /\ product_source_documents[3].original_filename = "b"
  /\ ~uploading

\* C25: the list of lines of the form is never empty, whatever handleAddLine,
\* handleRemoveLine, handleLineChange and resetForm did, and handleRemoveLine
\* on a list of exactly one line leaves the list as it is.
C25_LineListIsNeverEmpty ==
  /\ [](Len(lineItems) >= 1)
  /\ [][handleRemoveLine /\ Len(lineItems) = 1 =>
          Len(lineItems') = 1 /\ LinesOf(lineItems)' = LinesOf(lineItems)]_vars

\* The list has exactly one line, which has been filled in: the state in which
\* handleRemoveLine removes nothing.
C25_Witness ==
  /\ Len(lineItems) = 1
  /\ heap[lineItems[1]].product_id = "p1"
  /\ heap[lineItems[1]].narration = "note"
  /\ heap[lineItems[1]].amount = 4

\* Texts parseFloat finds no number in, and a product id that is not in the
\* list of products.
NoNumberTexts == {"abc", "", "  "}

UnlistedProductId == "p9"

\* C26: every line of the form has amount = quantity * rate, whatever edits
\* of quantity, rate, product and narration, additions, removals and resets
\* came before; and on every such line a quantity or a rate typed as a text
\* that is no number is stored as 0, with the amount following, and the
\* choice of a product id that is not in the list changes nothing.
C26_AmountIsQuantityTimesRate ==
  \A i \in DOMAIN lineItems :
    LET line == heap[lineItems[i]]
    IN /\ line.amount = line.quantity * line.rate
       /\ \A text \in NoNumberTexts :
            /\ ChangedLine(line, "quantity", text)
                 = [line EXCEPT !.quantity = 0, !.amount = 0]
            /\ ChangedLine(line, "rate", text)
                 = [line EXCEPT !.rate = 0, !.amount = 0]
       /\ ChangedLine(line, "product_id", UnlistedProductId) = line

\* Two lines: one with a product, quantity 2, rate 2 and amount 4 and a
\* narration typed over the product's name, one whose quantity was typed as
\* a text that is no number and is 0, with amount 0 at rate 2.
C26_Witness ==
  /\ Len(lineItems) = 2
  /\ \E i, j \in DOMAIN lineItems :
       /\ heap[lineItems[i]].product_id = "p1"
       /\ heap[lineItems[i]].narration = "note"
       /\ heap[lineItems[i]].quantity = 2
       /\ heap[lineItems[i]].amount = 4
       /\ heap[lineItems[j]].quantity = 0
       /\ heap[lineItems[j]].rate = 2
       /\ heap[lineItems[j]].amount = 0

\* The header row call k of handleSubmit inserted, and the item rows of that
\* header, in the order of the table.
PurchaseHeaderOf(k) ==
  purchase_invoices[CHOOSE n \in DOMAIN purchase_invoices :
                      purchase_invoices[n].id = submits[k].invoice].data

ItemRowsOf(k) ==
  SelectSeq(purchase_invoice_items, LAMBDA row : row.invoice_id = submits[k].invoice)

InsertedHeader(k) ==
  \E n \in DOMAIN purchase_invoices : purchase_invoices[n].id = submits[k].invoice

InsertedItems(k) == InsertedHeader(k) /\ submits[k].alert.text = "Purchase invoice created successfully"

\* C27: the header a call of handleSubmit inserted has subtotal equal to the
\* sum of the amounts of the lines of the form submitted, tax_amount =
\* subtotal * tax_percent / 100, total_amount = subtotal + tax_amount,
\* paid_amount 0, balance_amount = total_amount and status unpaid; the item rows
\* it inserted are one a line of that form, each with line_total equal to the
\* line's amount.
C27_InsertedTotalsMatchTheLines ==
  \A k \in Slots :
    /\ InsertedHeader(k) =>
         LET d == PurchaseHeaderOf(k)
         IN /\ d.subtotal = SumOfAmounts(submits[k].seen)
            /\ d.tax_amount = (d.subtotal * submits[k].formData.tax_percent) \div 100
            /\ d.total_amount = d.subtotal + d.tax_amount
            /\ d.paid_amount = 0
            /\ d.balance_amount = d.total_amount
            /\ d.status = "unpaid"
    /\ InsertedItems(k) =>
         /\ Len(ItemRowsOf(k)) = Len(submits[k].seen)
         /\ \A i \in DOMAIN ItemRowsOf(k) :
              ItemRowsOf(k)[i].line_total = submits[k].seen[i].amount

\* C28: in the form the exchange rate is 1 whenever the currency is IDR, at
\* the start, after resetForm and after the currency was switched to IDR; the
\* rate changes only from a state with currency USD, by an edit that leaves the
\* currency USD or by being set to 1; it is never 0, and a text that is no
\* number, or 0, typed as the rate gives 1.
C28_RateIsOneUnlessUsd ==
  /\ [](formData.currency = "IDR" => formData.exchange_rate = 1)
  /\ [](formData.exchange_rate # 0)
  /\ [](\A text \in NoNumberTexts \cup {"0"} : OrElse(parseFloat(text), 1) = 1)
  /\ [][formData.exchange_rate' # formData.exchange_rate =>
          /\ formData.currency = "USD"
          /\ formData.currency' = "USD" \/ formData.exchange_rate' = 1]_vars

\* The currency is USD and a rate was typed.
C28_Witness ==
  /\ formData.currency = "USD"
  /\ formData.exchange_rate = 2

====
